---- MODULE Spec2Model ----
(***************************************************************************)
(* Codebase indexing and retrieval server (roo-cli-server).                *)
(*                                                                         *)
(* The server is one single-threaded JavaScript process: the code between  *)
(* two awaits runs atomically, every await is a point where the other      *)
(* requests in flight may run.  Each request is a process with a program   *)
(* counter; one action is one resumption of one async function.            *)
(*                                                                         *)
(* Text is a sequence of one-character strings, a file name is such a      *)
(* sequence, a path is a root plus a sequence of names.                    *)
(***************************************************************************)
EXTENDS Integers, Sequences, FiniteSets, TLC

VARIABLES
    fs,                 \* the file system: root -> directory node (or NoDir)
    config,             \* the content of the configuration file
    qdrantClient,       \* let qdrantClient = null   (TRUE: non-null)
    openaiClient,       \* let openaiClient = null   (TRUE: non-null)
    isIndexing,         \* let isIndexing = false
    indexedCodebases,   \* let indexedCodebases = new Set()
    collectionExists,   \* vector store: the collection exists
    points,             \* vector store: the points of the collection
    pc,                 \* position of every request
    res,                \* the answer this step gives to a request, if any
    ix,                 \* locals of the indexCodebase calls
    sr,                 \* locals of the searchCodebase calls
    ch,                 \* locals of the sendMessage calls
    cl,                 \* locals of the DELETE /index calls
    everCleared,        \* history: roots a delete-by-filter was applied for
    fn                  \* a call of a pure function: its arguments and result

vars == <<fs, config, qdrantClient, openaiClient, isIndexing, indexedCodebases,
          collectionExists, points, pc, res, ix, sr, ch, cl, everCleared, fn>>

-----------------------------------------------------------------------------
(* Bounds of the model *)

NumIndexCallers == 2
NumBatchFiles == 11
MaxTextLen == 5
MaxWindow == 3
MaxIdLen == 3

-----------------------------------------------------------------------------
(* Program constants *)

INDEXING_CONFIG ==
    [ vectorSize   |-> 1536,
      maxFileSize  |-> 1024 * 1024,
      maxChunkSize |-> 1000,
      overlapSize  |-> 200 ]

batchSize == 10

\* score_threshold: 0.7, in hundredths
score_threshold == 70

\* searchCodebase(query, codebasePath, 5) in getIndexedCodebaseContext
contextLimit == 5

\* the divisor of the approximate line numbers
charsPerLine == 50

CODE_EXTENSIONS ==
    { <<".", "j", "s">>, <<".", "t", "s">>, <<".", "j", "s", "x">>,
      <<".", "t", "s", "x">>, <<".", "p", "y">>, <<".", "j", "a", "v", "a">>,
      <<".", "c", "p", "p">>, <<".", "c">>, <<".", "c", "s">>,
      <<".", "p", "h", "p">>, <<".", "r", "b">>, <<".", "g", "o">>,
      <<".", "r", "s">>, <<".", "s", "w", "i", "f", "t">>, <<".", "k", "t">>,
      <<".", "s", "c", "a", "l", "a">>, <<".", "h", "t", "m", "l">>,
      <<".", "c", "s", "s">>, <<".", "s", "c", "s", "s">>,
      <<".", "j", "s", "o", "n">>, <<".", "y", "a", "m", "l">>,
      <<".", "y", "m", "l">>, <<".", "t", "o", "m", "l">>, <<".", "m", "d">>,
      <<".", "t", "x", "t">>, <<".", "s", "h">>, <<".", "b", "a", "s", "h">>,
      <<".", "z", "s", "h">> }

-----------------------------------------------------------------------------
(* Sequences and numbers *)

Min(a, b) == IF a < b THEN a ELSE b
Max(a, b) == IF a > b THEN a ELSE b

Range(s) == { s[i] : i \in 1..Len(s) }

\* String.prototype.slice(start, end) on a text, 0-based, end exclusive;
\* a negative index counts from the end
Slice(text, start, end) ==
    LET n  == Len(text)
        s0 == IF start < 0 THEN Max(n + start, 0) ELSE Min(start, n)
        e0 == IF end < 0 THEN Max(n + end, 0) ELSE Min(end, n)
    IN  IF s0 >= e0 THEN << >> ELSE SubSeq(text, s0 + 1, e0)

\* Array.prototype.slice(start, end) with 0 <= start
ArraySlice(arr, start, end) ==
    IF start >= Min(end, Len(arr)) THEN << >>
    ELSE SubSeq(arr, start + 1, Min(end, Len(arr)))

RECURSIVE Digits(_)
\* the decimal digits of a natural number, as `${n}` prints it
Digits(n) ==
    LET d == <<"0", "1", "2", "3", "4", "5", "6", "7", "8", "9">>
    IN  IF n < 10 THEN << d[n + 1] >>
        ELSE Append(Digits(n \div 10), d[(n % 10) + 1])

\* the index of the last "." of a name, 0 when there is none
LastDot(name) ==
    LET dots == { i \in 1..Len(name) : name[i] = "." }
    IN  IF dots = {} THEN 0 ELSE CHOOSE i \in dots : \A j \in dots : j <= i

\* path.extname of a file name: from the last "." to the end; empty when
\* there is no "." or the only "." is the first character
extname(name) ==
    IF LastDot(name) <= 1 THEN << >>
    ELSE SubSeq(name, LastDot(name), Len(name))

\* file.startsWith('.')
startsWithDot(name) == Len(name) > 0 /\ name[1] = "."

NODE_MODULES == <<"n", "o", "d", "e", "_", "m", "o", "d", "u", "l", "e", "s">>
DOT_GIT      == <<".", "g", "i", "t">>

-----------------------------------------------------------------------------
(* Codebase roots *)

Roots == {"A", "B"}

\* an absent codebasePath (null, undefined or '')
NoRoot == ""

-----------------------------------------------------------------------------
(* The file system.  A node is a regular file or a directory; a path is  *)
(* [root, rel]: a codebase root and the names below it.                    *)

NoDir == [kind |-> "none"]

File(name, content) ==
    [kind |-> "file", name |-> name, statOk |-> TRUE, readOk |-> TRUE,
     size |-> Len(content), content |-> content]

\* a file of more than maxFileSize bytes: its content is never read
LargeFile(name) ==
    [kind |-> "file", name |-> name, statOk |-> TRUE, readOk |-> TRUE,
     size |-> INDEXING_CONFIG.maxFileSize + 1, content |-> << >>]

Dir(name, entries) ==
    [kind |-> "dir", name |-> name, statOk |-> TRUE, listOk |-> TRUE,
     entries |-> entries]

\* path.join(dirPath, file)
join(dirPath, file) == [root |-> dirPath.root, rel |-> Append(dirPath.rel, file)]

RECURSIVE Resolve(_, _)
\* the node a path below a directory names, NoDir when there is none
Resolve(node, rel) ==
    IF rel = << >> THEN node
    ELSE IF node.kind # "dir" THEN NoDir
    ELSE LET hits == { k \in 1..Len(node.entries) : node.entries[k].name = Head(rel) }
         IN  IF hits = {} THEN NoDir
             ELSE Resolve(node.entries[CHOOSE k \in hits : TRUE], Tail(rel))

\* the node of a full path in the file system
NodeAt(files, path) ==
    IF path.root \in DOMAIN files THEN Resolve(files[path.root], path.rel) ELSE NoDir

RECURSIVE pathString(_)
\* path.relative(codebasePath, filePath) as text: the names joined by "/"
pathString(rel) ==
    IF Len(rel) = 0 THEN << >>
    ELSE IF Len(rel) = 1 THEN rel[1]
    ELSE rel[1] \o <<"/">> \o pathString(Tail(rel))

\* the last name of a path
basename(path) == IF Len(path.rel) = 0 THEN << >> ELSE path.rel[Len(path.rel)]

RECURSIVE getAllFiles(_, _, _)
RECURSIVE walkEntries(_, _, _, _)
\* getAllFiles(dirPath, arrayOfFiles): node is what dirPath names
getAllFiles(node, dirPath, arrayOfFiles) ==
    IF node.kind # "dir" \/ ~node.listOk THEN arrayOfFiles
    ELSE walkEntries(node.entries, 1, dirPath, arrayOfFiles)

\* the for loop of getAllFiles from entry k on; a failing stat leaves the
\* loop through the catch
walkEntries(entries, k, dirPath, arrayOfFiles) ==
    IF k > Len(entries) THEN arrayOfFiles
    ELSE LET file == entries[k] IN
         IF startsWithDot(file.name) \/ file.name = NODE_MODULES \/ file.name = DOT_GIT
         THEN walkEntries(entries, k + 1, dirPath, arrayOfFiles)
         ELSE IF ~file.statOk THEN arrayOfFiles
         ELSE IF file.kind = "dir"
         THEN walkEntries(entries, k + 1, dirPath,
                          getAllFiles(file, join(dirPath, file.name), arrayOfFiles))
         ELSE walkEntries(entries, k + 1, dirPath,
                          Append(arrayOfFiles, join(dirPath, file.name)))

\* allFiles.filter(file => CODE_EXTENSIONS.includes(path.extname(file)))
codeFilesOf(allFiles) ==
    SelectSeq(allFiles, LAMBDA file : extname(basename(file)) \in CODE_EXTENSIONS)

-----------------------------------------------------------------------------
(* Chunker and chunk identifier *)

RECURSIVE splitLoopNoOverlap(_, _, _, _, _, _)
\* splitLoop with start = end: the next chunk starts where the last one ended
splitLoopNoOverlap(text, maxChunkSize, overlapSize, start, chunks, fuel) ==
    IF ~(start < Len(text)) THEN [chunks |-> chunks, done |-> TRUE]
    ELSE IF fuel = 0 THEN [chunks |-> chunks, done |-> FALSE]
    ELSE LET end   == Min(start + maxChunkSize, Len(text))
             chunk == Slice(text, start, end)
         IN  IF end = Len(text)
             THEN [chunks |-> Append(chunks, chunk), done |-> TRUE]
             ELSE splitLoopNoOverlap(text, maxChunkSize, overlapSize, end,
                                     Append(chunks, chunk), fuel - 1)

RECURSIVE splitLoopNoBreak(_, _, _, _, _, _)
\* splitLoop without `if (end === text.length) break`
splitLoopNoBreak(text, maxChunkSize, overlapSize, start, chunks, fuel) ==
    IF ~(start < Len(text)) THEN [chunks |-> chunks, done |-> TRUE]
    ELSE IF fuel = 0 THEN [chunks |-> chunks, done |-> FALSE]
    ELSE LET end   == Min(start + maxChunkSize, Len(text))
             chunk == Slice(text, start, end)
         IN  splitLoopNoBreak(text, maxChunkSize, overlapSize, end - overlapSize,
                              Append(chunks, chunk), fuel - 1)

RECURSIVE splitLoop(_, _, _, _, _, _)
\* the while loop of splitIntoChunks; fuel counts the iterations left, and
\* done = FALSE reports a loop that has not ended when the fuel is spent
splitLoop(text, maxChunkSize, overlapSize, start, chunks, fuel) ==
    IF ~(start < Len(text)) THEN [chunks |-> chunks, done |-> TRUE]
    ELSE IF fuel = 0 THEN [chunks |-> chunks, done |-> FALSE]
    ELSE LET end   == Min(start + maxChunkSize, Len(text))
             chunk == Slice(text, start, end)
         IN  IF end = Len(text)
             THEN [chunks |-> Append(chunks, chunk), done |-> TRUE]
             ELSE splitLoop(text, maxChunkSize, overlapSize, end - overlapSize,
                            Append(chunks, chunk), fuel - 1)

\* splitIntoChunks(text, maxChunkSize, overlapSize); a loop that advances
\* ends within Len(text) iterations
splitIntoChunks(text, maxChunkSize, overlapSize) ==
    splitLoop(text, maxChunkSize, overlapSize, 0, << >>, Len(text) + 1)

\* the string generateChunkId hashes: `${filePath}:${startLine}:${content}`
chunkIdInput(filePath, startLine, content) ==
    filePath \o <<":">> \o Digits(startLine) \o <<":">> \o content

\* generateChunkId that numbers the points instead of hashing the chunk
generateChunkIdSerial(filePath, startLine, content) ==
    Digits(Cardinality(points))

\* generateChunkId: the md5 digest, taken to be free of collisions, is
\* represented by the string it digests
generateChunkId(filePath, startLine, content) ==
    chunkIdInput(filePath, startLine, content)

\* startLineOf that gives every chunk the line of the first one
startLineOfFirst(i) == 1

\* startLine and endLine of chunk i (from 0) in indexFile
startLineOf(i) ==
    ((i * (INDEXING_CONFIG.maxChunkSize - INDEXING_CONFIG.overlapSize)) \div charsPerLine) + 1

endLineOf(i, chunk) == startLineOf(i) + (Len(chunk) \div charsPerLine)

-----------------------------------------------------------------------------
(* The embedding service and the vector store *)

EmbedAlphabet == {"a", "b"}

\* the vector of a text: how often each letter occurs, saturating at 2
Embed(text) ==
    [c \in EmbedAlphabet |->
        Min(Cardinality({ i \in 1..Len(text) : text[i] = c }), 2)]

Dot(u, v) == u["a"] * v["a"] + u["b"] * v["b"]

ISqrt(n) == CHOOSE k \in 0..100 : k * k <= n /\ n < (k + 1) * (k + 1)

\* cosine similarity of two vectors, in hundredths, rounded down
Score(u, v) ==
    IF Dot(u, u) = 0 \/ Dot(v, v) = 0 THEN 0
    ELSE ISqrt((10000 * Dot(u, v) * Dot(u, v)) \div (Dot(u, u) * Dot(v, v)))

\* filter: null
NoFilter == [must |-> << >>]

\* filter: { must: [{ key: 'codebasePath', match: { value } }] }
PathFilter(value) == [must |-> << [key |-> "codebasePath", value |-> value] >>]

\* a point passes a filter when every must clause matches its payload
Matches(point, filter) ==
    \A k \in 1..Len(filter.must) : point.payload[filter.must[k].key] = filter.must[k].value

\* upsert: a point replaces the point with its id
Upsert(pts, point) == { q \in pts : q.id # point.id } \cup { point }

\* delete by filter
DeleteByFilter(pts, filter) == { q \in pts : ~Matches(q, filter) }

\* the points a search admits: they pass the filter and reach the threshold
Admitted(pts, vector, filter, threshold) ==
    { q \in pts : Matches(q, filter) /\ Score(vector, q.vector) >= threshold }

\* a scored point as search returns it
Scored(q, vector) == [score |-> Score(vector, q.vector), payload |-> q.payload, id |-> q.id]

\* what search may return: the limit best admitted points, best first; the
\* order of points of equal score is not determined
SearchOutcomes(pts, vector, filter, limit, threshold) ==
    LET adm == Admitted(pts, vector, filter, threshold)
        n   == Min(limit, Cardinality(adm))
    IN  { [i \in 1..n |-> Scored(s[i], vector)] :
            s \in { t \in [1..n -> adm] :
                      /\ \A i, j \in 1..n : i < j =>
                            /\ t[i] # t[j]
                            /\ Score(vector, t[i].vector) >= Score(vector, t[j].vector)
                      /\ \A q \in adm \ Range(t) : \A i \in 1..n :
                            Score(vector, q.vector) <= Score(vector, t[i].vector) } }

-----------------------------------------------------------------------------
(* The context assembler: getCodebaseContext and its three steps.  A      *)
(* context string is the sequence of its sections, '' the empty sequence. *)

PACKAGE_JSON == <<"p", "a", "c", "k", "a", "g", "e", ".", "j", "s", "o", "n">>
README_MD    == <<"R", "E", "A", "D", "M", "E", ".", "m", "d">>

importantFiles ==
    { <<"p", "a", "c", "k", "a", "g", "e", ".", "j", "s", "o", "n">>,
      <<"R", "E", "A", "D", "M", "E", ".", "m", "d">>,
      <<"r", "e", "q", "u", "i", "r", "e", "m", "e", "n", "t", "s", ".", "t", "x", "t">>,
      <<"C", "a", "r", "g", "o", ".", "t", "o", "m", "l">>,
      <<"g", "o", ".", "m", "o", "d">>,
      <<"p", "o", "m", ".", "x", "m", "l">>,
      <<"b", "u", "i", "l", "d", ".", "g", "r", "a", "d", "l", "e">>,
      <<"G", "e", "m", "f", "i", "l", "e">>,
      <<"c", "o", "m", "p", "o", "s", "e", "r", ".", "j", "s", "o", "n">>,
      <<"p", "y", "p", "r", "o", "j", "e", "c", "t", ".", "t", "o", "m", "l">> }

extMap ==
    << <<<<".", "j", "s">>, "javascript">>,
       <<<<".", "t", "s">>, "typescript">>,
       <<<<".", "j", "s", "x">>, "javascript">>,
       <<<<".", "t", "s", "x">>, "typescript">>,
       <<<<".", "p", "y">>, "python">>,
       <<<<".", "j", "a", "v", "a">>, "java">>,
       <<<<".", "c", "p", "p">>, "cpp">>,
       <<<<".", "c">>, "c">>,
       <<<<".", "c", "s">>, "csharp">>,
       <<<<".", "p", "h", "p">>, "php">>,
       <<<<".", "r", "b">>, "ruby">>,
       <<<<".", "g", "o">>, "go">>,
       <<<<".", "r", "s">>, "rust">>,
       <<<<".", "s", "w", "i", "f", "t">>, "swift">>,
       <<<<".", "k", "t">>, "kotlin">>,
       <<<<".", "s", "c", "a", "l", "a">>, "scala">>,
       <<<<".", "h", "t", "m", "l">>, "html">>,
       <<<<".", "c", "s", "s">>, "css">>,
       <<<<".", "s", "c", "s", "s">>, "scss">>,
       <<<<".", "j", "s", "o", "n">>, "json">>,
       <<<<".", "y", "a", "m", "l">>, "yaml">>,
       <<<<".", "y", "m", "l">>, "yaml">>,
       <<<<".", "t", "o", "m", "l">>, "toml">>,
       <<<<".", "m", "d">>, "markdown">>,
       <<<<".", "t", "x", "t">>, "text">>,
       <<<<".", "s", "h">>, "bash">>,
       <<<<".", "b", "a", "s", "h">>, "bash">>,
       <<<<".", "z", "s", "h">>, "bash">> >>

\* getFileExtension(filePath): the language of a file name, 'text' when
\* the extension is not in extMap
getFileExtension(name) ==
    LET hits == { k \in 1..Len(extMap) : extMap[k][1] = extname(name) }
    IN  IF hits = {} THEN "text" ELSE extMap[CHOOSE k \in hits : TRUE][2]

\* item.startsWith(prefix)
startsWith(name, prefix) ==
    Len(name) >= Len(prefix) /\ SubSeq(name, 1, Len(prefix)) = prefix

\* file.includes(pattern)
includes(text, pattern) ==
    \E i \in 1..(Len(text) - Len(pattern) + 1) :
        SubSeq(text, i, i + Len(pattern) - 1) = pattern

\* a full path as text
fullPathString(path) ==
    IF Len(path.rel) = 0 THEN << path.root >>
    ELSE << path.root, "/" >> \o pathString(path.rel)

\* `${content.slice(0, budget)}${content.length > budget ? '\n...' : ''}`
truncated(content, budget) ==
    [text |-> Slice(content, 0, budget), marker |-> Len(content) > budget]

maxDepthDefault == 3
maxItemsPerDirectory == 20
keyFileBudget == 1000
codeFileBudget == 2000
maxFilesDefault == 10

RECURSIVE getDirectoryStructure(_, _, _)
RECURSIVE structureLoop(_, _, _, _, _)
\* getDirectoryStructure(rootPath, maxDepth, currentDepth): the lines of
\* the tree below the directory node
getDirectoryStructure(node, maxDepth, currentDepth) ==
    IF currentDepth > maxDepth THEN << >>
    ELSE IF node.kind # "dir" \/ ~node.listOk THEN << >>
    ELSE structureLoop(ArraySlice(node.entries, 0, maxItemsPerDirectory), 1,
                       maxDepth, currentDepth, << >>)

\* the for loop of getDirectoryStructure from item k on; a failing stat
\* leaves the function through the catch, which returns ''
structureLoop(items, k, maxDepth, currentDepth, structure) ==
    IF k > Len(items) THEN structure
    ELSE LET item == items[k] IN
         IF ~item.statOk THEN << >>
         ELSE IF item.kind = "dir"
         THEN IF ~startsWithDot(item.name) /\ ~startsWith(item.name, NODE_MODULES)
              THEN structureLoop(items, k + 1, maxDepth, currentDepth,
                       structure
                       \o << [depth |-> currentDepth, kind |-> "dir", name |-> item.name] >>
                       \o getDirectoryStructure(item, maxDepth, currentDepth + 1))
              ELSE structureLoop(items, k + 1, maxDepth, currentDepth, structure)
         ELSE IF \/ extname(item.name) \in CODE_EXTENSIONS
                 \/ item.name = PACKAGE_JSON
                 \/ item.name = README_MD
         THEN structureLoop(items, k + 1, maxDepth, currentDepth,
                  Append(structure,
                         [depth |-> currentDepth, kind |-> "file", name |-> item.name]))
         ELSE structureLoop(items, k + 1, maxDepth, currentDepth, structure)

RECURSIVE keyFilesLoop(_, _, _)
\* the for loop of getKeyFiles from item k on
keyFilesLoop(items, k, keyFiles) ==
    IF k > Len(items) THEN keyFiles
    ELSE LET item == items[k] IN
         IF item.name \in importantFiles /\ item.kind = "file" /\ item.readOk
         THEN keyFilesLoop(items, k + 1,
                  Append(keyFiles, [name |-> item.name,
                                    content |-> truncated(item.content, keyFileBudget)]))
         ELSE keyFilesLoop(items, k + 1, keyFiles)

\* getKeyFiles(rootPath)
getKeyFiles(node) ==
    IF node.kind # "dir" \/ ~node.listOk THEN << >>
    ELSE keyFilesLoop(node.entries, 1, << >>)

RECURSIVE codeFilesLoop(_, _, _, _)
\* the for loop of getCodeFiles from file k on
codeFilesLoop(files, relevantFiles, k, codeFiles) ==
    IF k > Len(relevantFiles) THEN codeFiles
    ELSE LET file == relevantFiles[k]
             node == NodeAt(files, file)
         IN  IF node.kind = "file" /\ node.readOk
             THEN codeFilesLoop(files, relevantFiles, k + 1,
                      Append(codeFiles,
                             [relativePath |-> pathString(file.rel),
                              language |-> getFileExtension(basename(file)),
                              content |-> truncated(node.content, codeFileBudget)]))
             ELSE codeFilesLoop(files, relevantFiles, k + 1, codeFiles)

\* getCodeFiles(rootPath, maxFiles)
getCodeFiles(files, rootPath, maxFiles) ==
    LET node     == IF rootPath \in DOMAIN files THEN files[rootPath] ELSE NoDir
        allFiles == getAllFiles(node, [root |-> rootPath, rel |-> << >>], << >>)
        relevantFiles ==
            ArraySlice(
                SelectSeq(allFiles, LAMBDA file :
                    /\ extname(basename(file)) \in CODE_EXTENSIONS
                    /\ ~includes(fullPathString(file), NODE_MODULES)
                    /\ ~includes(fullPathString(file), DOT_GIT)),
                0, maxFiles)
    IN  codeFilesLoop(files, relevantFiles, 1, << >>)

\* getCodebaseContext(codebasePath)
getCodebaseContext(files, codebasePath) ==
    IF codebasePath = NoRoot THEN << >>
    ELSE LET node      == IF codebasePath \in DOMAIN files THEN files[codebasePath] ELSE NoDir
             structure == getDirectoryStructure(node, maxDepthDefault, 0)
             keyFiles  == getKeyFiles(node)
             codeFiles == getCodeFiles(files, codebasePath, maxFilesDefault)
         IN  << [section |-> "Directory Structure", items |-> structure] >>
             \o (IF Len(keyFiles) > 0
                 THEN << [section |-> "Key Files", items |-> keyFiles] >> ELSE << >>)
             \o (IF Len(codeFiles) > 0
                 THEN << [section |-> "Code Files", items |-> codeFiles] >> ELSE << >>)

-----------------------------------------------------------------------------
(* Requests *)

IndexProcs  == { <<"index", k>> : k \in 1..NumIndexCallers }
SearchProcs == { <<"search", 1>> }
ChatProcs   == { <<"chat", 1>> }
ClearProcs  == { <<"clear", 1>> }
Procs == IndexProcs \cup SearchProcs \cup ChatProcs \cup ClearProcs

Ok(value) == [status |-> "ok", value |-> value]
Err(message) == [status |-> "error", message |-> message]

\* the answer out to the call of request p with arguments call
Answer(p, call, out) == [proc |-> p, call |-> call, out |-> out]
NoAnswer == Answer(<<"none", 0>>, NoRoot, [status |-> "none"])

\* the locals of an indexCodebase call that is not running
\* (upserts and failures are history: the upserts that have succeeded and
\* the embedding requests and upserts that have failed in the run so far)
NoRun == [root |-> NoRoot, codeFiles |-> << >>, i |-> 0, totalChunks |-> 0,
          processedFiles |-> 0, tasks |-> << >>, upserts |-> 0, failures |-> 0]

\* an indexFile call that has not been made, one that has just been made
\* and one that has returned ret
TaskNew == [pc |-> "new", i |-> 0, chunks |-> << >>, indexedChunks |-> 0, ret |-> 0]
TaskStarted == [TaskNew EXCEPT !.pc = "stat"]
TaskDone(ret) == [TaskNew EXCEPT !.pc = "done", !.ret = ret]

NoSearch == [query |-> << >>, codebasePath |-> NoRoot, limit |-> 0]
\* the locals of a sendMessage call; indexed, embedRequests, searchRequests,
\* searchOutcome, searchResults and assembled record what the call has done
NoChat == [prompt |-> << >>, codebasePath |-> NoRoot, useIndexedSearch |-> FALSE,
           indexed |-> FALSE, embedRequests |-> 0, searchRequests |-> 0,
           searchOutcome |-> "none", searchResults |-> << >>, assembled |-> FALSE]
NoClear == [decodedPath |-> NoRoot]

\* no pure function is called; the result of a call that was not made
NoCall == [op |-> "none"]
NoOut == [status |-> "none"]

-----------------------------------------------------------------------------
(* initializeQdrant, shared by every request *)

\* where a caller of initializeQdrant() is after the call: the function
\* returns at once when the client exists and awaits loadConfig otherwise
enterInitializeQdrant == IF qdrantClient THEN "qDone" ELSE "qLoadConfig"

\* loadConfig has returned: the client is created, getCollections is sent
QdrantLoadConfig(p) ==
    /\ pc[p] = "qLoadConfig"
    /\ qdrantClient' = TRUE
    /\ pc' = [pc EXCEPT ![p] = "qGetCollections"]
    /\ res' = NoAnswer
    /\ UNCHANGED <<fs, config, openaiClient, isIndexing, indexedCodebases,
                   collectionExists, points, ix, sr, ch, cl, everCleared, fn>>

\* getCollections has answered: createCollection is sent when the
\* collection is missing
QdrantGetCollections(p) ==
    /\ pc[p] = "qGetCollections"
    /\ pc' = [pc EXCEPT ![p] = IF collectionExists THEN "qDone" ELSE "qCreate"]
    /\ res' = NoAnswer
    /\ UNCHANGED <<fs, config, qdrantClient, openaiClient, isIndexing,
                   indexedCodebases, collectionExists, points, ix, sr, ch, cl,
                   everCleared, fn>>

\* getCollections has failed: initializeQdrant throws, the client stays set
QdrantGetCollectionsFails(p) ==
    /\ pc[p] = "qGetCollections"
    /\ pc' = [pc EXCEPT ![p] = "qFailed"]
    /\ res' = NoAnswer
    /\ UNCHANGED <<fs, config, qdrantClient, openaiClient, isIndexing,
                   indexedCodebases, collectionExists, points, ix, sr, ch, cl,
                   everCleared, fn>>

\* createCollection has answered; the store refuses to create a collection
\* that exists by now
QdrantCreateCollection(p) ==
    /\ pc[p] = "qCreate"
    /\ ~collectionExists
    /\ collectionExists' = TRUE
    /\ pc' = [pc EXCEPT ![p] = "qDone"]
    /\ res' = NoAnswer
    /\ UNCHANGED <<fs, config, qdrantClient, openaiClient, isIndexing,
                   indexedCodebases, points, ix, sr, ch, cl, everCleared, fn>>

QdrantCreateCollectionFails(p) ==
    /\ pc[p] = "qCreate"
    /\ pc' = [pc EXCEPT ![p] = "qFailed"]
    /\ res' = NoAnswer
    /\ UNCHANGED <<fs, config, qdrantClient, openaiClient, isIndexing,
                   indexedCodebases, collectionExists, points, ix, sr, ch, cl,
                   everCleared, fn>>

\* initializeOpenAI(config): the client after the call
initializeOpenAI == openaiClient \/ config.openaiApiKey

-----------------------------------------------------------------------------
(* indexCodebase *)

\* the indexes (from 1) of the files of the batch that starts at i (from 0)
BatchOf(codeFiles, i) == { k \in 1..Len(codeFiles) : i < k /\ k <= i + batchSize }

\* dispatchBatch that starts indexFile for the first file of the batch only
dispatchBatchFirstOnly(run, i) ==
    [run EXCEPT !.i = i,
                !.tasks = [k \in 1..Len(run.codeFiles) |->
                              IF k = i + 1 THEN TaskStarted ELSE run.tasks[k]]]

\* batch.map(async (file) => indexFile(file, codebasePath)): every
\* indexFile call of the batch runs up to its first await, fs.stat
dispatchBatch(run, i) ==
    [run EXCEPT !.i = i,
                !.tasks = [k \in 1..Len(run.codeFiles) |->
                              IF k \in BatchOf(run.codeFiles, i) THEN TaskStarted
                              ELSE run.tasks[k]]]

\* finishRun without indexedCodebases.add(codebasePath)
finishRunForgetsRoot(c, root, totalChunks, processedFiles) ==
    /\ UNCHANGED indexedCodebases
    /\ isIndexing' = FALSE
    /\ res' = Answer(c, root, Ok([totalChunks |-> totalChunks,
                                   processedFiles |-> processedFiles]))
    /\ ix' = [ix EXCEPT ![c] = NoRun]
    /\ pc' = [pc EXCEPT ![c] = "idle"]

\* the end of a run that returns: the root is marked as indexed, the
\* finally block clears the flag
finishRun(c, root, totalChunks, processedFiles) ==
    /\ indexedCodebases' = indexedCodebases \cup {root}
    /\ isIndexing' = FALSE
    /\ res' = Answer(c, root, Ok([totalChunks |-> totalChunks,
                                   processedFiles |-> processedFiles]))
    /\ ix' = [ix EXCEPT ![c] = NoRun]
    /\ pc' = [pc EXCEPT ![c] = "idle"]

\* failRun without the finally block
failRunKeepsFlag(c, message) ==
    /\ UNCHANGED isIndexing
    /\ res' = Answer(c, ix[c].root, Err(message))
    /\ ix' = [ix EXCEPT ![c] = NoRun]
    /\ pc' = [pc EXCEPT ![c] = "idle"]
    /\ UNCHANGED indexedCodebases

\* failRun with the root marked as indexed all the same
failRunRegisters(c, message) ==
    /\ isIndexing' = FALSE
    /\ res' = Answer(c, ix[c].root, Err(message))
    /\ ix' = [ix EXCEPT ![c] = NoRun]
    /\ pc' = [pc EXCEPT ![c] = "idle"]
    /\ indexedCodebases' = indexedCodebases \cup {ix[c].root}

\* the end of a run that throws: catch logs and rethrows, the finally
\* block clears the flag
failRun(c, message) ==
    /\ isIndexing' = FALSE
    /\ res' = Answer(c, ix[c].root, Err(message))
    /\ ix' = [ix EXCEPT ![c] = NoRun]
    /\ pc' = [pc EXCEPT ![c] = "idle"]
    /\ UNCHANGED indexedCodebases

\* IndexCall with its two tests inside the try block: the finally block
\* clears the flag when a call is rejected
IndexCallRejectReleases(c, codebasePath) ==
    /\ pc[c] = "idle"
    /\ IF isIndexing
       THEN /\ res' = Answer(c, codebasePath, Err("Indexing already in progress"))
            /\ isIndexing' = FALSE
            /\ UNCHANGED <<pc, ix>>
       ELSE IF codebasePath = NoRoot
       THEN /\ res' = Answer(c, codebasePath, Err("Codebase path is required"))
            /\ isIndexing' = FALSE
            /\ UNCHANGED <<pc, ix>>
       ELSE /\ isIndexing' = TRUE
            /\ res' = NoAnswer
            /\ ix' = [ix EXCEPT ![c] = [NoRun EXCEPT !.root = codebasePath]]
            /\ pc' = [pc EXCEPT ![c] = "ixLoadConfig"]
    /\ UNCHANGED <<fs, config, qdrantClient, openaiClient, indexedCodebases,
                   collectionExists, points, sr, ch, cl, everCleared, fn>>

\* IndexCall without the test of isIndexing
IndexCallUnguarded(c, codebasePath) ==
    /\ pc[c] = "idle"
    /\ IF codebasePath = NoRoot
       THEN /\ res' = Answer(c, codebasePath, Err("Codebase path is required"))
            /\ UNCHANGED <<isIndexing, pc, ix>>
       ELSE /\ isIndexing' = TRUE
            /\ res' = NoAnswer
            /\ ix' = [ix EXCEPT ![c] = [NoRun EXCEPT !.root = codebasePath]]
            /\ pc' = [pc EXCEPT ![c] = "ixLoadConfig"]
    /\ UNCHANGED <<fs, config, qdrantClient, openaiClient, indexedCodebases,
                   collectionExists, points, sr, ch, cl, everCleared, fn>>

\* IndexCall without the test of codebasePath
IndexCallNoPathCheck(c, codebasePath) ==
    /\ pc[c] = "idle"
    /\ IF isIndexing
       THEN /\ res' = Answer(c, codebasePath, Err("Indexing already in progress"))
            /\ UNCHANGED <<isIndexing, pc, ix>>
       ELSE /\ isIndexing' = TRUE
            /\ res' = NoAnswer
            /\ ix' = [ix EXCEPT ![c] = [NoRun EXCEPT !.root = codebasePath]]
            /\ pc' = [pc EXCEPT ![c] = "ixLoadConfig"]
    /\ UNCHANGED <<fs, config, qdrantClient, openaiClient, indexedCodebases,
                   collectionExists, points, sr, ch, cl, everCleared, fn>>

\* indexCodebase(codebasePath) up to its first await
IndexCall(c, codebasePath) ==
    /\ pc[c] = "idle"
    /\ IF isIndexing
       THEN /\ res' = Answer(c, codebasePath, Err("Indexing already in progress"))
            /\ UNCHANGED <<isIndexing, pc, ix>>
       ELSE IF codebasePath = NoRoot
       THEN /\ res' = Answer(c, codebasePath, Err("Codebase path is required"))
            /\ UNCHANGED <<isIndexing, pc, ix>>
       ELSE /\ isIndexing' = TRUE
            /\ res' = NoAnswer
            /\ ix' = [ix EXCEPT ![c] = [NoRun EXCEPT !.root = codebasePath]]
            /\ pc' = [pc EXCEPT ![c] = "ixLoadConfig"]
    /\ UNCHANGED <<fs, config, qdrantClient, openaiClient, indexedCodebases,
                   collectionExists, points, sr, ch, cl, everCleared, fn>>

\* loadConfig has returned: initializeQdrant is called
IndexLoadConfig(c) ==
    /\ pc[c] = "ixLoadConfig"
    /\ pc' = [pc EXCEPT ![c] = enterInitializeQdrant]
    /\ res' = NoAnswer
    /\ UNCHANGED <<fs, config, qdrantClient, openaiClient, isIndexing,
                   indexedCodebases, collectionExists, points, ix, sr, ch, cl,
                   everCleared, fn>>

\* initializeQdrant has returned: initializeOpenAI, then the walk starts
IndexInitialized(c) ==
    /\ pc[c] = "qDone"
    /\ openaiClient' = initializeOpenAI
    /\ pc' = [pc EXCEPT ![c] = "ixWalk"]
    /\ res' = NoAnswer
    /\ UNCHANGED <<fs, config, qdrantClient, isIndexing, indexedCodebases,
                   collectionExists, points, ix, sr, ch, cl, everCleared, fn>>

\* initializeQdrant has thrown
IndexInitializeFails(c) ==
    /\ pc[c] = "qFailed"
    /\ failRun(c, "Failed to initialize Qdrant")
    /\ UNCHANGED <<fs, config, qdrantClient, openaiClient, collectionExists,
                   points, sr, ch, cl, everCleared, fn>>

\* getAllFiles has returned: the code files are selected and the first
\* batch is dispatched; with no code file the run ends here
IndexWalk(c) ==
    /\ pc[c] = "ixWalk"
    /\ LET root      == ix[c].root
           node      == IF root \in DOMAIN fs THEN fs[root] ELSE NoDir
           allFiles  == getAllFiles(node, [root |-> root, rel |-> << >>], << >>)
           codeFiles == codeFilesOf(allFiles)
           run       == [ix[c] EXCEPT !.codeFiles = codeFiles,
                                      !.tasks = [k \in 1..Len(codeFiles) |-> TaskNew]]
       IN  IF Len(codeFiles) = 0
           THEN finishRun(c, root, 0, 0)
           ELSE /\ ix' = [ix EXCEPT ![c] = dispatchBatch(run, 0)]
                /\ pc' = [pc EXCEPT ![c] = "ixBatch"]
                /\ res' = NoAnswer
                /\ UNCHANGED <<isIndexing, indexedCodebases>>
    /\ UNCHANGED <<fs, config, qdrantClient, openaiClient, collectionExists,
                   points, sr, ch, cl, everCleared, fn>>

RECURSIVE SumRet(_, _)
\* the sum of the chunk counts the indexFile calls of a batch returned
SumRet(tasks, batch) ==
    IF batch = {} THEN 0
    ELSE LET k == CHOOSE x \in batch : TRUE
         IN  tasks[k].ret + SumRet(tasks, batch \ {k})

\* batchSettled that waits for the first file only, as Promise.race does
batchSettledAny(run) ==
    \E k \in BatchOf(run.codeFiles, run.i) : run.tasks[k].pc = "done"

\* the batch Promise.all waits for has settled
batchSettled(run) ==
    \A k \in BatchOf(run.codeFiles, run.i) : run.tasks[k].pc = "done"

\* Promise.all(batchPromises) has resolved: the results are added up, then
\* the next batch is dispatched or the run ends
IndexBatchDone(c) ==
    /\ pc[c] = "ixBatch"
    /\ batchSettled(ix[c])
    /\ LET run            == ix[c]
           batch          == BatchOf(run.codeFiles, run.i)
           totalChunks    == run.totalChunks + SumRet(run.tasks, batch)
           processedFiles == run.processedFiles + Cardinality(batch)
           i              == run.i + batchSize
       IN  IF i < Len(run.codeFiles)
           THEN /\ ix' = [ix EXCEPT ![c] =
                            dispatchBatch([run EXCEPT !.totalChunks = totalChunks,
                                                      !.processedFiles = processedFiles], i)]
                /\ res' = NoAnswer
                /\ UNCHANGED <<isIndexing, indexedCodebases, pc>>
           ELSE finishRun(c, run.root, totalChunks, processedFiles)
    /\ UNCHANGED <<fs, config, qdrantClient, openaiClient, collectionExists,
                   points, sr, ch, cl, everCleared, fn>>

-----------------------------------------------------------------------------
(* indexFile: task k of run c indexes the file codeFiles[k] *)

\* the point indexFile builds for chunk i (from 0) of a file
pointOf(filePath, codebasePath, chunk, i) ==
    LET relativePath == pathString(filePath.rel)
        startLine    == startLineOf(i)
    IN  [id      |-> generateChunkId(relativePath, startLine, chunk),
         vector  |-> Embed(chunk),
         payload |-> [filePath     |-> relativePath,
                      codeChunk    |-> chunk,
                      startLine    |-> startLine,
                      endLine      |-> endLineOf(i, chunk),
                      codebasePath |-> codebasePath]]

taskAt(c, k, state) ==
    /\ pc[c] = "ixBatch"
    /\ k \in 1..Len(ix[c].codeFiles)
    /\ ix[c].tasks[k].pc = state

\* createEmbeddings([chunk]) is called for chunk i: it throws at once
\* without a client, and indexFile returns 0 from its catch
requestEmbedding(task, i, indexedChunks) ==
    IF ~openaiClient THEN TaskDone(0)
    ELSE [task EXCEPT !.pc = "embed", !.i = i, !.indexedChunks = indexedChunks]

\* fs.stat has answered: a failure and a large file both return 0
FileStat(c, k) ==
    /\ taskAt(c, k, "stat")
    /\ LET node == NodeAt(fs, ix[c].codeFiles[k])
       IN  ix' = [ix EXCEPT ![c].tasks[k] =
                    IF node.kind = "none" \/ ~node.statOk THEN TaskDone(0)
                    ELSE IF node.size > INDEXING_CONFIG.maxFileSize THEN TaskDone(0)
                    ELSE [@ EXCEPT !.pc = "read"]]
    /\ res' = NoAnswer
    /\ UNCHANGED <<fs, config, qdrantClient, openaiClient, isIndexing,
                   indexedCodebases, collectionExists, points, pc, sr, ch, cl,
                   everCleared, fn>>

\* fs.readFile has answered: the content is split and the embedding of
\* the first chunk is requested
FileRead(c, k) ==
    /\ taskAt(c, k, "read")
    /\ LET node   == NodeAt(fs, ix[c].codeFiles[k])
           chunks == splitIntoChunks(node.content, INDEXING_CONFIG.maxChunkSize,
                                     INDEXING_CONFIG.overlapSize).chunks
       IN  ix' = [ix EXCEPT ![c].tasks[k] =
                    IF node.kind # "file" \/ ~node.readOk THEN TaskDone(0)
                    ELSE IF Len(chunks) = 0 THEN TaskDone(0)
                    ELSE requestEmbedding([@ EXCEPT !.chunks = chunks], 0, 0)]
    /\ res' = NoAnswer
    /\ UNCHANGED <<fs, config, qdrantClient, openaiClient, isIndexing,
                   indexedCodebases, collectionExists, points, pc, sr, ch, cl,
                   everCleared, fn>>

\* the embedding has arrived and the upsert is sent without being awaited:
\* the loop goes on to the next chunk while it is outstanding
FileEmbeddedAhead(c, k) ==
    /\ taskAt(c, k, "embed")
    /\ ix' = [ix EXCEPT ![c].tasks[k] =
                IF @.i + 1 < Len(@.chunks)
                THEN [@ EXCEPT !.pc = "embed", !.i = @ + 1]
                ELSE [@ EXCEPT !.pc = "upsert"]]
    /\ res' = NoAnswer
    /\ UNCHANGED <<fs, config, qdrantClient, openaiClient, isIndexing,
                   indexedCodebases, collectionExists, points, pc, sr, ch, cl,
                   everCleared, fn>>

\* the embedding has arrived: the point is built and the upsert is sent
FileEmbedded(c, k) ==
    /\ taskAt(c, k, "embed")
    /\ ix' = [ix EXCEPT ![c].tasks[k].pc = "upsert"]
    /\ res' = NoAnswer
    /\ UNCHANGED <<fs, config, qdrantClient, openaiClient, isIndexing,
                   indexedCodebases, collectionExists, points, pc, sr, ch, cl,
                   everCleared, fn>>

\* the embedding request has failed: indexFile returns 0 from its catch
FileEmbedFails(c, k) ==
    /\ taskAt(c, k, "embed")
    /\ ix' = [ix EXCEPT ![c].tasks[k] = TaskDone(0), ![c].failures = @ + 1]
    /\ res' = NoAnswer
    /\ UNCHANGED <<fs, config, qdrantClient, openaiClient, isIndexing,
                   indexedCodebases, collectionExists, points, pc, sr, ch, cl,
                   everCleared, fn>>

\* the upsert has succeeded: the chunk is counted, then the next chunk is
\* embedded or indexFile returns its count
FileUpserted(c, k) ==
    /\ taskAt(c, k, "upsert")
    /\ collectionExists
    /\ LET task == ix[c].tasks[k]
           n    == task.indexedChunks + 1
       IN  /\ points' = Upsert(points, pointOf(ix[c].codeFiles[k], ix[c].root,
                                               task.chunks[task.i + 1], task.i))
           /\ ix' = [ix EXCEPT ![c].tasks[k] =
                       IF task.i + 1 < Len(task.chunks)
                       THEN requestEmbedding(task, task.i + 1, n)
                       ELSE TaskDone(n),
                                ![c].upserts = @ + 1]
    /\ res' = NoAnswer
    /\ UNCHANGED <<fs, config, qdrantClient, openaiClient, isIndexing,
                   indexedCodebases, collectionExists, pc, sr, ch, cl,
                   everCleared, fn>>

\* the upsert has failed and indexFile returns its count with the chunk
\* that failed counted in
FileUpsertFailsCounted(c, k) ==
    /\ taskAt(c, k, "upsert")
    /\ ix' = [ix EXCEPT ![c].tasks[k] = TaskDone(@.indexedChunks + 1),
                        ![c].failures = @ + 1]
    /\ res' = NoAnswer
    /\ UNCHANGED <<fs, config, qdrantClient, openaiClient, isIndexing,
                   indexedCodebases, collectionExists, points, pc, sr, ch, cl,
                   everCleared, fn>>

\* the upsert has failed: indexFile returns 0 from its catch
FileUpsertFails(c, k) ==
    /\ taskAt(c, k, "upsert")
    /\ ix' = [ix EXCEPT ![c].tasks[k] = TaskDone(0), ![c].failures = @ + 1]
    /\ res' = NoAnswer
    /\ UNCHANGED <<fs, config, qdrantClient, openaiClient, isIndexing,
                   indexedCodebases, collectionExists, points, pc, sr, ch, cl,
                   everCleared, fn>>

-----------------------------------------------------------------------------
(* DELETE /index/:codebasePath *)

\* the handler up to its first await: initializeQdrant only without a
\* client, else the delete is sent at once
ClearCall(k, decodedPath) ==
    /\ pc[k] = "idle"
    /\ cl' = [cl EXCEPT ![k] = [decodedPath |-> decodedPath]]
    /\ pc' = [pc EXCEPT ![k] = IF ~qdrantClient THEN "qLoadConfig" ELSE "clDelete"]
    /\ res' = NoAnswer
    /\ UNCHANGED <<fs, config, qdrantClient, openaiClient, isIndexing,
                   indexedCodebases, collectionExists, points, ix, sr, ch,
                   everCleared, fn>>

\* initializeQdrant has returned: the delete is sent
ClearInitialized(k) ==
    /\ pc[k] = "qDone"
    /\ pc' = [pc EXCEPT ![k] = "clDelete"]
    /\ res' = NoAnswer
    /\ UNCHANGED <<fs, config, qdrantClient, openaiClient, isIndexing,
                   indexedCodebases, collectionExists, points, ix, sr, ch, cl,
                   everCleared, fn>>

\* initializeQdrant has thrown: the handler answers 500
ClearInitializeFails(k) ==
    /\ pc[k] = "qFailed"
    /\ res' = Answer(k, cl[k].decodedPath, Err("Failed to initialize Qdrant"))
    /\ cl' = [cl EXCEPT ![k] = NoClear]
    /\ pc' = [pc EXCEPT ![k] = "idle"]
    /\ UNCHANGED <<fs, config, qdrantClient, openaiClient, isIndexing,
                   indexedCodebases, collectionExists, points, ix, sr, ch,
                   everCleared, fn>>

\* the store applies the delete by filter; its answer is on the way
ClearDeleteApplied(k) ==
    /\ pc[k] = "clDelete"
    /\ collectionExists
    /\ points' = DeleteByFilter(points, PathFilter(cl[k].decodedPath))
    /\ everCleared' = everCleared \cup {cl[k].decodedPath}
    /\ pc' = [pc EXCEPT ![k] = "clDeleted"]
    /\ res' = NoAnswer
    /\ UNCHANGED <<fs, config, qdrantClient, openaiClient, isIndexing,
                   indexedCodebases, collectionExists, ix, sr, ch, cl, fn>>

\* the delete has failed: the handler answers 500
ClearDeleteFails(k) ==
    /\ pc[k] = "clDelete"
    /\ res' = Answer(k, cl[k].decodedPath, Err("delete failed"))
    /\ cl' = [cl EXCEPT ![k] = NoClear]
    /\ pc' = [pc EXCEPT ![k] = "idle"]
    /\ UNCHANGED <<fs, config, qdrantClient, openaiClient, isIndexing,
                   indexedCodebases, collectionExists, points, ix, sr, ch,
                   everCleared, fn>>

\* the answer of the delete has arrived, the root stays tracked
ClearReturnKeepsRoot(k) ==
    /\ pc[k] = "clDeleted"
    /\ res' = Answer(k, cl[k].decodedPath, Ok("Index cleared"))
    /\ cl' = [cl EXCEPT ![k] = NoClear]
    /\ pc' = [pc EXCEPT ![k] = "idle"]
    /\ UNCHANGED <<fs, config, qdrantClient, openaiClient, isIndexing,
                   indexedCodebases, collectionExists, points, ix, sr, ch,
                   everCleared, fn>>

\* the answer of the delete has arrived: the root is no longer tracked
ClearReturn(k) ==
    /\ pc[k] = "clDeleted"
    /\ indexedCodebases' = indexedCodebases \ {cl[k].decodedPath}
    /\ res' = Answer(k, cl[k].decodedPath, Ok("Index cleared"))
    /\ cl' = [cl EXCEPT ![k] = NoClear]
    /\ pc' = [pc EXCEPT ![k] = "idle"]
    /\ UNCHANGED <<fs, config, qdrantClient, openaiClient, isIndexing,
                   collectionExists, points, ix, sr, ch, everCleared, fn>>

-----------------------------------------------------------------------------
(* searchCodebase, called by POST /search and by getIndexedCodebaseContext *)

\* the filter searchCodebase builds
searchFilter(codebasePath) ==
    IF codebasePath # NoRoot THEN PathFilter(codebasePath) ELSE NoFilter

\* searchRequest without the filter
searchRequestUnfiltered(query, codebasePath, limit) ==
    [vector |-> Embed(query), filter |-> NoFilter, limit |-> limit,
     score_threshold |-> score_threshold]

\* searchRequest with a threshold of 0
searchRequestNoThreshold(query, codebasePath, limit) ==
    [vector |-> Embed(query), filter |-> searchFilter(codebasePath),
     limit |-> limit, score_threshold |-> 0]

\* the request qdrantClient.search is given
searchRequest(query, codebasePath, limit) ==
    [vector |-> Embed(query), filter |-> searchFilter(codebasePath),
     limit |-> limit, score_threshold |-> score_threshold]

\* searchResult.map(point => ({ score, filePath, ... }))
searchResultsOf(searchResult) ==
    [i \in 1..Len(searchResult) |->
        [score        |-> searchResult[i].score,
         filePath     |-> searchResult[i].payload.filePath,
         codeChunk    |-> searchResult[i].payload.codeChunk,
         startLine    |-> searchResult[i].payload.startLine,
         endLine      |-> searchResult[i].payload.endLine,
         codebasePath |-> searchResult[i].payload.codebasePath]]

\* the context getIndexedCodebaseContext formats from the results
formatIndexedContext(searchResults) ==
    << [section |-> "Relevant Code (from indexed search)",
        items |-> [i \in 1..Len(searchResults) |->
                      [filePath  |-> searchResults[i].filePath,
                       startLine |-> searchResults[i].startLine,
                       endLine   |-> searchResults[i].endLine,
                       score     |-> searchResults[i].score,
                       language  |-> getFileExtension(searchResults[i].filePath),
                       codeChunk |-> searchResults[i].codeChunk]]] >>

\* indexedContextOf that returns '' whatever the search found
indexedContextDropped(outcome) == << >>

\* what getIndexedCodebaseContext returns once searchCodebase has ended:
\* '' after an exception and for no result
indexedContextOf(outcome) ==
    IF outcome.status = "error" THEN << >>
    ELSE IF Len(outcome.value) = 0 THEN << >>
    ELSE formatIndexedContext(outcome.value)

\* searchEnds without the catch of getIndexedCodebaseContext: the error of
\* searchCodebase ends sendMessage
searchEndsThrows(p, outcome) ==
    /\ sr' = [sr EXCEPT ![p] = NoSearch]
    /\ IF p \in SearchProcs
       THEN /\ res' = Answer(p, sr[p], outcome)
            /\ pc' = [pc EXCEPT ![p] = "idle"]
            /\ UNCHANGED ch
       ELSE LET codebaseContext == indexedContextOf(outcome)
                done == [ch[p] EXCEPT
                           !.searchOutcome = IF outcome.status = "error" THEN "error"
                                             ELSE IF Len(outcome.value) = 0 THEN "empty"
                                             ELSE "results",
                           !.searchResults = IF outcome.status = "error" THEN << >>
                                             ELSE outcome.value]
            IN  IF outcome.status = "error"
                THEN /\ ch' = [ch EXCEPT ![p] = NoChat]
                     /\ pc' = [pc EXCEPT ![p] = "idle"]
                     /\ res' = Answer(p, done, outcome)
                ELSE IF codebaseContext = << >>
                THEN /\ ch' = [ch EXCEPT ![p] = done]
                     /\ pc' = [pc EXCEPT ![p] = "chAssemble"]
                     /\ res' = NoAnswer
                ELSE /\ ch' = [ch EXCEPT ![p] = NoChat]
                     /\ pc' = [pc EXCEPT ![p] = "idle"]
                     /\ res' = Answer(p, done, Ok(codebaseContext))

\* searchCodebase ends with outcome.  POST /search answers with it;
\* sendMessage goes on with the indexed context, or with getCodebaseContext
\* when that context is ''
searchEnds(p, outcome) ==
    /\ sr' = [sr EXCEPT ![p] = NoSearch]
    /\ IF p \in SearchProcs
       THEN /\ res' = Answer(p, sr[p], outcome)
            /\ pc' = [pc EXCEPT ![p] = "idle"]
            /\ UNCHANGED ch
       ELSE LET codebaseContext == indexedContextOf(outcome)
                done == [ch[p] EXCEPT
                           !.searchOutcome = IF outcome.status = "error" THEN "error"
                                             ELSE IF Len(outcome.value) = 0 THEN "empty"
                                             ELSE "results",
                           !.searchResults = IF outcome.status = "error" THEN << >>
                                             ELSE outcome.value]
            IN  IF codebaseContext = << >>
                THEN /\ ch' = [ch EXCEPT ![p] = done]
                     /\ pc' = [pc EXCEPT ![p] = "chAssemble"]
                     /\ res' = NoAnswer
                ELSE /\ ch' = [ch EXCEPT ![p] = NoChat]
                     /\ pc' = [pc EXCEPT ![p] = "idle"]
                     /\ res' = Answer(p, done, Ok(codebaseContext))

\* searchCodebase(query, codebasePath, limit) up to its first await
SearchCall(s, query, codebasePath, limit) ==
    /\ pc[s] = "idle"
    /\ sr' = [sr EXCEPT ![s] = [query |-> query, codebasePath |-> codebasePath,
                                limit |-> limit]]
    /\ pc' = [pc EXCEPT ![s] = "srLoadConfig"]
    /\ res' = NoAnswer
    /\ UNCHANGED <<fs, config, qdrantClient, openaiClient, isIndexing,
                   indexedCodebases, collectionExists, points, ix, ch, cl,
                   everCleared, fn>>

\* loadConfig has returned: initializeQdrant is called
SearchLoadConfig(p) ==
    /\ pc[p] = "srLoadConfig"
    /\ pc' = [pc EXCEPT ![p] = enterInitializeQdrant]
    /\ res' = NoAnswer
    /\ UNCHANGED <<fs, config, qdrantClient, openaiClient, isIndexing,
                   indexedCodebases, collectionExists, points, ix, sr, ch, cl,
                   everCleared, fn>>

\* initializeQdrant has returned: initializeOpenAI, then createEmbeddings,
\* which throws at once without a client
SearchInitialized(p) ==
    /\ pc[p] = "qDone"
    /\ openaiClient' = initializeOpenAI
    /\ IF ~initializeOpenAI
       THEN searchEnds(p, Err("OpenAI client not initialized"))
       ELSE /\ pc' = [pc EXCEPT ![p] = "srEmbed"]
            /\ ch' = IF p \in ChatProcs
                     THEN [ch EXCEPT ![p].embedRequests = @ + 1] ELSE ch
            /\ res' = NoAnswer
            /\ UNCHANGED sr
    /\ UNCHANGED <<fs, config, qdrantClient, isIndexing, indexedCodebases,
                   collectionExists, points, ix, cl, everCleared, fn>>

\* initializeQdrant has thrown
SearchInitializeFails(p) ==
    /\ pc[p] = "qFailed"
    /\ searchEnds(p, Err("Failed to initialize Qdrant"))
    /\ UNCHANGED <<fs, config, qdrantClient, openaiClient, isIndexing,
                   indexedCodebases, collectionExists, points, ix, cl,
                   everCleared, fn>>

\* the embedding of the query has arrived: the search is sent
SearchEmbedded(p) ==
    /\ pc[p] = "srEmbed"
    /\ pc' = [pc EXCEPT ![p] = "srSearch"]
    /\ ch' = IF p \in ChatProcs THEN [ch EXCEPT ![p].searchRequests = @ + 1] ELSE ch
    /\ res' = NoAnswer
    /\ UNCHANGED <<fs, config, qdrantClient, openaiClient, isIndexing,
                   indexedCodebases, collectionExists, points, ix, sr, cl,
                   everCleared, fn>>

\* the embedding request has failed
SearchEmbedFails(p) ==
    /\ pc[p] = "srEmbed"
    /\ searchEnds(p, Err("Failed to create embeddings"))
    /\ UNCHANGED <<fs, config, qdrantClient, openaiClient, isIndexing,
                   indexedCodebases, collectionExists, points, ix, cl,
                   everCleared, fn>>

\* the store has answered the search
SearchAnswered(p) ==
    /\ pc[p] = "srSearch"
    /\ collectionExists
    /\ LET request == searchRequest(sr[p].query, sr[p].codebasePath, sr[p].limit)
       IN  \E searchResult \in SearchOutcomes(points, request.vector, request.filter,
                                              request.limit, request.score_threshold) :
              searchEnds(p, Ok(searchResultsOf(searchResult)))
    /\ UNCHANGED <<fs, config, qdrantClient, openaiClient, isIndexing,
                   indexedCodebases, collectionExists, points, ix, cl,
                   everCleared, fn>>

\* SearchFails with a catch that returns [] instead of throwing
SearchFailsQuietly(p) ==
    /\ pc[p] = "srSearch"
    /\ searchEnds(p, Ok(<< >>))
    /\ UNCHANGED <<fs, config, qdrantClient, openaiClient, isIndexing,
                   indexedCodebases, collectionExists, points, ix, cl,
                   everCleared, fn>>

\* the search has failed
SearchFails(p) ==
    /\ pc[p] = "srSearch"
    /\ searchEnds(p, Err("search failed"))
    /\ UNCHANGED <<fs, config, qdrantClient, openaiClient, isIndexing,
                   indexedCodebases, collectionExists, points, ix, cl,
                   everCleared, fn>>

-----------------------------------------------------------------------------
(* sendMessage up to the context it hands to getPersonaPrompt *)

\* wantsIndexedSearch that ignores the flag
wantsIndexedSearchAlways(useIndexedSearch, path) == path # NoRoot

\* if (useIndexedSearch && (codebasePath || config.codebasePath))
wantsIndexedSearch(useIndexedSearch, path) == useIndexedSearch /\ path # NoRoot

\* codebaseIsIndexed without the test of indexedCodebases
codebaseAssumedIndexed(codebasePath) == codebasePath # NoRoot

\* getIndexedCodebaseContext goes on to searchCodebase
codebaseIsIndexed(codebasePath) ==
    codebasePath # NoRoot /\ codebasePath \in indexedCodebases

\* sendMessage up to its first await that is not resolved at once
ChatCall(h, prompt, codebasePath, useIndexedSearch) ==
    /\ pc[h] = "idle"
    /\ LET path == IF codebasePath # NoRoot THEN codebasePath ELSE config.codebasePath
           call == [NoChat EXCEPT !.prompt = prompt, !.codebasePath = path,
                                  !.useIndexedSearch = useIndexedSearch,
                                  !.indexed = path \in indexedCodebases]
       IN  /\ ch' = [ch EXCEPT ![h] = call]
           /\ IF wantsIndexedSearch(useIndexedSearch, path) /\ codebaseIsIndexed(path)
              THEN /\ sr' = [sr EXCEPT ![h] = [query |-> prompt, codebasePath |-> path,
                                               limit |-> contextLimit]]
                   /\ pc' = [pc EXCEPT ![h] = "srLoadConfig"]
              ELSE /\ pc' = [pc EXCEPT ![h] = "chAssemble"]
                   /\ UNCHANGED sr
    /\ res' = NoAnswer
    /\ UNCHANGED <<fs, config, qdrantClient, openaiClient, isIndexing,
                   indexedCodebases, collectionExists, points, ix, cl,
                   everCleared, fn>>

\* getCodebaseContext has returned: its result is the context
ChatAssemble(h) ==
    /\ pc[h] = "chAssemble"
    /\ res' = Answer(h, [ch[h] EXCEPT !.assembled = TRUE],
                     Ok(getCodebaseContext(fs, ch[h].codebasePath)))
    /\ ch' = [ch EXCEPT ![h] = NoChat]
    /\ pc' = [pc EXCEPT ![h] = "idle"]
    /\ UNCHANGED <<fs, config, qdrantClient, openaiClient, isIndexing,
                   indexedCodebases, collectionExists, points, ix, sr, cl,
                   everCleared, fn>>

-----------------------------------------------------------------------------
(* File systems *)

N_m_js == <<"m", ".", "j", "s">>
N_u_py == <<"u", ".", "p", "y">>
N_c_js == <<"c", ".", "j", "s">>
N_x_o  == <<"x", ".", "o">>
N_lib  == <<"l", "i", "b">>

\* two codebases that share the file m.js, name and content
TwoRoots ==
    [r \in Roots |->
        IF r = "A"
        THEN Dir(<<"A">>, << File(N_m_js, <<"a", "b">>),
                             Dir(DOT_GIT, << File(N_c_js, <<"b">>) >>),
                             File(N_x_o, <<"a">>),
                             Dir(N_lib, << File(N_u_py, <<"b">>) >>) >>)
        ELSE Dir(<<"B">>, << File(N_m_js, <<"a", "b">>) >>)]

-----------------------------------------------------------------------------
(* Indexing and clearing *)

\* the configuration file: an embedding key is set; defaultPath is its
\* codebasePath
ConfigFile(defaultPath) == [openaiApiKey |-> TRUE, codebasePath |-> defaultPath]

\* the state of a server that has just started, its store empty
InitServer(files, configFile) ==
    /\ fs = files
    /\ config = configFile
    /\ qdrantClient = FALSE
    /\ openaiClient = FALSE
    /\ isIndexing = FALSE
    /\ indexedCodebases = {}
    /\ collectionExists = FALSE
    /\ points = {}
    /\ pc = [p \in Procs |-> "idle"]
    /\ res = NoAnswer
    /\ ix = [c \in IndexProcs |-> NoRun]
    /\ sr = [p \in SearchProcs \cup ChatProcs |-> NoSearch]
    /\ ch = [h \in ChatProcs |-> NoChat]
    /\ cl = [k \in ClearProcs |-> NoClear]
    /\ everCleared = {}

\* the server with no pure function under examination
InitWith(files, configFile) ==
    /\ InitServer(files, configFile)
    /\ fn = NoCall

Init == InitWith(TwoRoots, ConfigFile(NoRoot))

\* the steps of the indexCodebase calls that are running
IndexStepNext ==
    \/ \E c \in IndexProcs : IndexLoadConfig(c)
    \/ \E c \in IndexProcs : IndexInitialized(c)
    \/ \E c \in IndexProcs : IndexInitializeFails(c)
    \/ \E c \in IndexProcs : IndexWalk(c)
    \/ \E c \in IndexProcs : IndexBatchDone(c)
    \/ \E c \in IndexProcs, k \in 1..NumBatchFiles : FileStat(c, k)
    \/ \E c \in IndexProcs, k \in 1..NumBatchFiles : FileRead(c, k)
    \/ \E c \in IndexProcs, k \in 1..NumBatchFiles : FileEmbedded(c, k)
    \/ \E c \in IndexProcs, k \in 1..NumBatchFiles : FileEmbedFails(c, k)
    \/ \E c \in IndexProcs, k \in 1..NumBatchFiles : FileUpserted(c, k)
    \/ \E c \in IndexProcs, k \in 1..NumBatchFiles : FileUpsertFails(c, k)

IndexNext ==
    \/ \E c \in IndexProcs, r \in Roots \cup {NoRoot} : IndexCall(c, r)
    \/ IndexStepNext

ClearNext ==
    \/ \E k \in ClearProcs, r \in Roots : ClearCall(k, r)
    \/ \E k \in ClearProcs : ClearInitialized(k)
    \/ \E k \in ClearProcs : ClearInitializeFails(k)
    \/ \E k \in ClearProcs : ClearDeleteApplied(k)
    \/ \E k \in ClearProcs : ClearDeleteFails(k)
    \/ \E k \in ClearProcs : ClearReturn(k)

QdrantNext(P) ==
    \/ \E p \in P : QdrantLoadConfig(p)
    \/ \E p \in P : QdrantGetCollections(p)
    \/ \E p \in P : QdrantGetCollectionsFails(p)
    \/ \E p \in P : QdrantCreateCollection(p)
    \/ \E p \in P : QdrantCreateCollectionFails(p)

Next ==
    \/ IndexNext
    \/ ClearNext
    \/ QdrantNext(IndexProcs \cup ClearProcs)

Spec == Init /\ [][Next]_vars

-----------------------------------------------------------------------------
(* Indexing and searching *)

Queries == { <<"a">>, <<"b">> }
Limits == { 1, 10 }

SearchStepNext(P) ==
    \/ \E p \in P : SearchLoadConfig(p)
    \/ \E p \in P : SearchInitialized(p)
    \/ \E p \in P : SearchInitializeFails(p)
    \/ \E p \in P : SearchEmbedded(p)
    \/ \E p \in P : SearchEmbedFails(p)
    \/ \E p \in P : SearchAnswered(p)
    \/ \E p \in P : SearchFails(p)

SearchNext ==
    \/ \E c \in IndexProcs, r \in Roots : IndexCall(c, r)
    \/ IndexStepNext
    \/ \E s \in SearchProcs, q \in Queries, r \in Roots \cup {NoRoot}, n \in Limits :
          SearchCall(s, q, r, n)
    \/ SearchStepNext(SearchProcs)
    \/ QdrantNext(IndexProcs \cup SearchProcs)

SpecSearch == Init /\ [][SearchNext]_vars

-----------------------------------------------------------------------------
(* Indexing and asking *)

Prompts == { <<"a">> }

\* the steps of the searchCodebase call of a sendMessage call.  The call is
\* made for a registered root only, a root is registered by a run that has
\* initialized the store client, and the client is never reset: the call
\* finds the client set and initializeQdrant returns at once
ChatSearchNext ==
    \/ \E h \in ChatProcs : SearchLoadConfig(h)
    \/ \E h \in ChatProcs : SearchInitialized(h)
    \/ \E h \in ChatProcs : SearchEmbedded(h)
    \/ \E h \in ChatProcs : SearchEmbedFails(h)
    \/ \E h \in ChatProcs : SearchAnswered(h)
    \/ \E h \in ChatProcs : SearchFails(h)

ChatNext ==
    \/ \E c \in IndexProcs, r \in Roots : IndexCall(c, r)
    \/ IndexStepNext
    \/ \E h \in ChatProcs, q \in Prompts, r \in Roots \cup {NoRoot}, u \in BOOLEAN :
          ChatCall(h, q, r, u)
    \/ \E h \in ChatProcs : ChatAssemble(h)
    \/ ChatSearchNext
    \/ QdrantNext(IndexProcs)

\* the configuration file names B as the default codebase
InitChat == InitWith(TwoRoots, ConfigFile("B"))

SpecChat == InitChat /\ [][ChatNext]_vars

-----------------------------------------------------------------------------
(* Indexing a codebase of more files than one batch holds *)

\* the name f<k>.js
BatchFileName(k) == <<"f">> \o Digits(k) \o <<".", "j", "s">>

\* root A holds NumBatchFiles files; to keep the interleavings of a batch
\* few, only the first file of the first and of the second batch are small
ManyFiles ==
    [r \in Roots |->
        IF r = "A"
        THEN Dir(<<"A">>, [k \in 1..NumBatchFiles |->
                              IF k = 1 \/ k = batchSize + 1
                              THEN File(BatchFileName(k), <<"a", "b">>)
                              ELSE LargeFile(BatchFileName(k))])
        ELSE Dir(<<"B">>, << >>)]

InitBatch == InitWith(ManyFiles, ConfigFile(NoRoot))

BatchNext ==
    \/ \E c \in IndexProcs : IndexCall(c, "A")
    \/ IndexStepNext
    \/ QdrantNext(IndexProcs)

SpecBatch == InitBatch /\ [][BatchNext]_vars

-----------------------------------------------------------------------------
(* Indexing a file of several chunks *)

N_big_js == <<"b", "i", "g", ".", "j", "s">>

\* root A holds big.js, 2500 times the letter a, and m.js
LongFiles ==
    [r \in Roots |->
        IF r = "A"
        THEN Dir(<<"A">>, << File(N_big_js, [i \in 1..2500 |-> "a"]),
                             File(N_m_js, <<"a", "b">>) >>)
        ELSE Dir(<<"B">>, << >>)]

InitLong == InitWith(LongFiles, ConfigFile(NoRoot))

SpecLong == InitLong /\ [][BatchNext]_vars

\* the steps of indexCodebase call c that follow a call it awaits
RunSteps(c) ==
    \/ IndexLoadConfig(c)
    \/ IndexInitialized(c)
    \/ IndexInitializeFails(c)
    \/ IndexWalk(c)
    \/ IndexBatchDone(c)
    \/ QdrantLoadConfig(c)
    \/ QdrantGetCollections(c)
    \/ QdrantGetCollectionsFails(c)
    \/ QdrantCreateCollection(c)
    \/ QdrantCreateCollectionFails(c)

\* the steps of the indexFile call k of run c: the filesystem, embedding
\* or store call it awaits returns, with a result or with an error
FileSteps(c, k) ==
    \/ FileStat(c, k)
    \/ FileRead(c, k)
    \/ FileEmbedded(c, k)
    \/ FileEmbedFails(c, k)
    \/ FileUpserted(c, k)
    \/ FileUpsertFails(c, k)

\* every call that is awaited returns in the end and the event loop then
\* runs what waits for it
CallsReturn ==
    /\ \A c \in IndexProcs : WF_vars(RunSteps(c))
    /\ \A c \in IndexProcs, k \in 1..NumBatchFiles : WF_vars(FileSteps(c, k))

SpecLongFair == SpecLong /\ CallsReturn

-----------------------------------------------------------------------------
(* Indexing without an embedding key *)

\* the configuration file has no openaiApiKey
ConfigFileNoKey == [ConfigFile(NoRoot) EXCEPT !.openaiApiKey = FALSE]

InitNoKey == InitWith(TwoRoots, ConfigFileNoKey)

\* the steps a server without an embedding client can take: createEmbeddings
\* throws before any request is sent, so no embedding and no upsert answers
NoKeyNext ==
    \/ \E c \in IndexProcs, r \in Roots : IndexCall(c, r)
    \/ \E c \in IndexProcs : IndexLoadConfig(c)
    \/ \E c \in IndexProcs : IndexInitialized(c)
    \/ \E c \in IndexProcs : IndexInitializeFails(c)
    \/ \E c \in IndexProcs : IndexWalk(c)
    \/ \E c \in IndexProcs : IndexBatchDone(c)
    \/ \E c \in IndexProcs, k \in 1..NumBatchFiles : FileStat(c, k)
    \/ \E c \in IndexProcs, k \in 1..NumBatchFiles : FileRead(c, k)
    \/ ClearNext
    \/ QdrantNext(IndexProcs \cup ClearProcs)

SpecNoKey == InitNoKey /\ [][NoKeyNext]_vars

-----------------------------------------------------------------------------
(* Calling the chunker *)

\* the texts of n letters at most
TextsUpTo(n) == UNION { [1..k -> EmbedAlphabet] : k \in 0..n }

\* a call splitIntoChunks(text, maxChunkSize, overlapSize) to be made
ChunkerCalls ==
    { [op |-> "splitIntoChunks", text |-> t, maxChunkSize |-> w,
       overlapSize |-> o, out |-> NoOut] :
         t \in TextsUpTo(MaxTextLen), w \in 1..MaxWindow, o \in 0..MaxWindow }

InitChunker ==
    /\ InitServer(TwoRoots, ConfigFile(NoRoot))
    /\ fn \in ChunkerCalls

\* the call runs: it returns its chunks, or its loop does not end
SplitCall ==
    /\ fn.op = "splitIntoChunks"
    /\ fn.out = NoOut
    /\ LET r == splitIntoChunks(fn.text, fn.maxChunkSize, fn.overlapSize)
       IN  fn' = [fn EXCEPT !.out = IF r.done THEN Ok(r.chunks)
                                    ELSE [status |-> "diverges"]]
    /\ res' = NoAnswer
    /\ UNCHANGED <<fs, config, qdrantClient, openaiClient, isIndexing,
                   indexedCodebases, collectionExists, points, pc, ix, sr, ch,
                   cl, everCleared>>

ChunkerNext == SplitCall

SpecChunker == InitChunker /\ [][ChunkerNext]_vars

-----------------------------------------------------------------------------
(* Calling the chunk identifier *)

\* the characters of the paths and chunks given to generateChunkId
IdAlphabet == {"a", ":", "1"}

\* the paths and the chunks: texts of one character at least
IdTexts == UNION { [1..k -> IdAlphabet] : k \in 1..MaxIdLen }

\* the start lines indexFile gives to the first two chunks of a file
IdStartLines == { startLineOf(0), startLineOf(1) }

\* the inputs (relativePath, startLine, chunk) of generateChunkId
IdInputs ==
    { [filePath |-> p, startLine |-> n, content |-> c] :
         p \in IdTexts, n \in IdStartLines, c \in IdTexts }

InitIdentifier ==
    /\ InitServer(TwoRoots, ConfigFile(NoRoot))
    /\ fn \in { [op |-> "generateChunkId", args |-> t, out |-> NoOut] : t \in IdInputs }

\* the call runs: out is the string that is hashed
IdCall ==
    /\ fn.op = "generateChunkId"
    /\ fn.out = NoOut
    /\ fn' = [fn EXCEPT !.out =
                 Ok(chunkIdInput(fn.args.filePath, fn.args.startLine, fn.args.content))]
    /\ res' = NoAnswer
    /\ UNCHANGED <<fs, config, qdrantClient, openaiClient, isIndexing,
                   indexedCodebases, collectionExists, points, pc, ix, sr, ch,
                   cl, everCleared>>

IdentifierNext == IdCall

SpecIdentifier == InitIdentifier /\ [][IdentifierNext]_vars

-----------------------------------------------------------------------------
(* Calling the walker and the context assembler on file systems that fail *)

N_z_js == <<"z", ".", "j", "s">>

\* root A holds package.json, m.js, lib/u.py and z.js, in this order;
\* listing A, reading package.json, the stat and the read of m.js, and the
\* stat and the listing of lib succeed or fail as the flags say.  B does
\* not exist
FailingFiles(listA, readP, statM, readM, statL, listL) ==
    [r \in Roots |->
        IF r = "A"
        THEN [Dir(<<"A">>,
                  << [File(PACKAGE_JSON, <<"a">>) EXCEPT !.readOk = readP],
                     [File(N_m_js, <<"a", "b">>) EXCEPT !.statOk = statM, !.readOk = readM],
                     [Dir(N_lib, << File(N_u_py, <<"b">>) >>)
                         EXCEPT !.statOk = statL, !.listOk = listL],
                     File(N_z_js, <<"b">>) >>)
              EXCEPT !.listOk = listA]
        ELSE NoDir]

FailingFileSystems ==
    { FailingFiles(listA, readP, statM, readM, statL, listL) :
         listA \in BOOLEAN, readP \in BOOLEAN, statM \in BOOLEAN,
         readM \in BOOLEAN, statL \in BOOLEAN, listL \in BOOLEAN }

InitFiles ==
    /\ \E files \in FailingFileSystems : InitServer(files, ConfigFile(NoRoot))
    /\ fn \in { [op |-> o, codebasePath |-> r, out |-> NoOut] :
                   o \in {"getCodebaseContext", "getAllFiles"},
                   r \in Roots \cup {NoRoot} }

\* getCodebaseContext(codebasePath) runs
AssembleCall ==
    /\ fn.op = "getCodebaseContext"
    /\ fn.out = NoOut
    /\ fn' = [fn EXCEPT !.out = Ok(getCodebaseContext(fs, fn.codebasePath))]
    /\ res' = NoAnswer
    /\ UNCHANGED <<fs, config, qdrantClient, openaiClient, isIndexing,
                   indexedCodebases, collectionExists, points, pc, ix, sr, ch,
                   cl, everCleared>>

\* getAllFiles(codebasePath) runs
WalkCall ==
    /\ fn.op = "getAllFiles"
    /\ fn.out = NoOut
    /\ fn.codebasePath # NoRoot
    /\ fn' = [fn EXCEPT !.out =
                 Ok(getAllFiles(fs[fn.codebasePath],
                                [root |-> fn.codebasePath, rel |-> << >>], << >>))]
    /\ res' = NoAnswer
    /\ UNCHANGED <<fs, config, qdrantClient, openaiClient, isIndexing,
                   indexedCodebases, collectionExists, points, pc, ix, sr, ch,
                   cl, everCleared>>

FilesNext == AssembleCall \/ WalkCall

SpecFiles == InitFiles /\ [][FilesNext]_vars

-----------------------------------------------------------------------------
(* Properties of the single-flight flag and of the indexed set *)

\* the indexCodebase calls that were accepted and have not ended
ActiveRuns == { c \in IndexProcs : pc[c] # "idle" }

AlreadyIndexing == Err("Indexing already in progress")

\* C1: while an accepted indexCodebase run has not ended, every further
\* indexCodebase call, whatever its root, is answered 'Indexing already in
\* progress' and changes nothing else; so at most one run is active
C1_SingleFlight ==
    [][ /\ Cardinality(ActiveRuns') <= 1
        /\ \A c \in IndexProcs :
              (pc[c] = "idle" /\ ActiveRuns # {}) =>
                 /\ pc'[c] = "idle"
                 /\ res'.proc = c =>
                       /\ res'.out = AlreadyIndexing
                       /\ UNCHANGED <<isIndexing, indexedCodebases, points,
                                      collectionExists, pc, ix>> ]_vars

\* C1 witness: a call for the other root is rejected while the files of a
\* run are being embedded
C1_Witness ==
    /\ res.proc \in IndexProcs
    /\ res.out = AlreadyIndexing
    /\ \E c \in ActiveRuns :
          /\ pc[c] = "ixBatch"
          /\ ix[c].root # res.call
          /\ res.call \in Roots
          /\ \E k \in 1..Len(ix[c].codeFiles) : ix[c].tasks[k].pc = "embed"

\* C2: when an accepted run ends, by a result or by an exception, the busy
\* flag is false afterwards, and a call with a root made when no run is
\* active is accepted
C2_FlagReleased ==
    [][ /\ \A c \in IndexProcs :
              (pc[c] # "idle" /\ pc'[c] = "idle") =>
                 /\ ~isIndexing'
                 /\ res'.proc = c
                 /\ res'.out.status \in {"ok", "error"}
        /\ \A c \in IndexProcs, r \in Roots :
              (ActiveRuns = {} /\ IndexCall(c, r)) => pc'[c] = "ixLoadConfig" ]_vars

\* C2 witness: a run has just failed in initializeQdrant and the flag is
\* clear
C2_Witness ==
    /\ res.proc \in IndexProcs
    /\ res.out = Err("Failed to initialize Qdrant")
    /\ ~isIndexing
    /\ ActiveRuns = {}

\* C3: a root enters the indexed set only in the step that ends a run for
\* that root with a result, every batch of the run being settled; a run
\* that throws registers nothing; a root leaves the set only in the step
\* that answers a successful clearIndex of that root
C3_Registration ==
    [][ /\ \A r \in Roots :
              (r \notin indexedCodebases /\ r \in indexedCodebases') =>
                 \E c \in IndexProcs :
                    /\ pc[c] \in {"ixWalk", "ixBatch"}
                    /\ ix[c].root = r
                    /\ \A k \in 1..Len(ix[c].codeFiles) : ix[c].tasks[k].pc = "done"
                    /\ pc'[c] = "idle"
                    /\ res'.proc = c
                    /\ res'.out.status = "ok"
        /\ \A r \in Roots :
              (r \in indexedCodebases /\ r \notin indexedCodebases') =>
                 \E k \in ClearProcs :
                    /\ pc[k] = "clDeleted"
                    /\ cl[k].decodedPath = r
                    /\ res' = Answer(k, r, Ok("Index cleared"))
        /\ (res'.proc \in IndexProcs /\ res'.out.status = "error") =>
              indexedCodebases' = indexedCodebases ]_vars

\* C3 witness: a run of two files has just registered its root
C3_Witness ==
    /\ res.proc \in IndexProcs
    /\ res.out.status = "ok"
    /\ res.out.value.processedFiles = 2
    /\ res.call \in indexedCodebases

-----------------------------------------------------------------------------
(* Properties of searchCodebase *)

\* C5: a search scoped to a root returns only results of that root,
\* whatever was indexed into the shared collection
C5_ScopedSearch ==
    (res.proc \in SearchProcs /\ res.out.status = "ok" /\ res.call.codebasePath \in Roots) =>
       \A i \in 1..Len(res.out.value) :
          res.out.value[i].codebasePath = res.call.codebasePath

\* C5 witness: both roots are indexed, a search scoped to A returns a
\* result, and the store holds a point of B that reaches the threshold
C5_Witness ==
    /\ res.proc \in SearchProcs
    /\ res.out.status = "ok"
    /\ res.call.codebasePath = "A"
    /\ Len(res.out.value) > 0
    /\ indexedCodebases = Roots
    /\ \E q \in points :
          /\ q.payload.codebasePath = "B"
          /\ Score(Embed(res.call.query), q.vector) >= score_threshold

\* C6: no result of a search has a score below 0.7, and the list holds as
\* many results as the store admits for the query, the scope and the
\* threshold, up to the limit, each of them a point of the store
C6_Threshold ==
    (res.proc \in SearchProcs /\ res.out.status = "ok") =>
       LET adm == Admitted(points, Embed(res.call.query),
                           searchFilter(res.call.codebasePath), score_threshold)
       IN  /\ \A i \in 1..Len(res.out.value) : res.out.value[i].score >= 70
           /\ Len(res.out.value) = Min(res.call.limit, Cardinality(adm))
           /\ \A i \in 1..Len(res.out.value) :
                 \E q \in adm :
                    /\ q.payload.filePath = res.out.value[i].filePath
                    /\ q.payload.codeChunk = res.out.value[i].codeChunk
                    /\ q.payload.codebasePath = res.out.value[i].codebasePath
                    /\ Score(Embed(res.call.query), q.vector) = res.out.value[i].score

\* C6 witness: a search returns a result while a point that passes its
\* filter scores below the threshold
C6_Witness ==
    /\ res.proc \in SearchProcs
    /\ res.out.status = "ok"
    /\ Len(res.out.value) > 0
    /\ \E q \in points :
          /\ Matches(q, searchFilter(res.call.codebasePath))
          /\ Score(Embed(res.call.query), q.vector) < score_threshold

-----------------------------------------------------------------------------
(* Properties of the context policy of sendMessage *)

\* the answer of a sendMessage call is the output of the context assembler
AssemblerAnswer ==
    /\ res.call.assembled
    /\ res.out = Ok(getCodebaseContext(fs, res.call.codebasePath))

\* C7: with useIndexedSearch = false no embedding request and no vector
\* search is made and the context is the assembler's output, also for an
\* indexed root
C7_FlagOff ==
    /\ \A h \in ChatProcs :
          (pc[h] # "idle" /\ ~ch[h].useIndexedSearch) =>
             /\ pc[h] = "chAssemble"
             /\ ch[h].embedRequests = 0
             /\ ch[h].searchRequests = 0
    /\ (res.proc \in ChatProcs /\ ~res.call.useIndexedSearch) =>
          /\ res.call.embedRequests = 0
          /\ res.call.searchRequests = 0
          /\ AssemblerAnswer

\* C7 witness: a call without the flag is answered for an indexed root
\* that has a point the prompt would find
C7_Witness ==
    /\ res.proc \in ChatProcs
    /\ ~res.call.useIndexedSearch
    /\ res.call.codebasePath \in indexedCodebases
    /\ \E q \in points :
          /\ q.payload.codebasePath = res.call.codebasePath
          /\ Score(Embed(res.call.prompt), q.vector) >= score_threshold

\* C8: with useIndexedSearch = true, the root indexed and a search that
\* returns results, the context is formatted from those results and the
\* assembler does not run
C8_IndexedContext ==
    /\ \A h \in ChatProcs : pc[h] = "chAssemble" => ch[h].searchOutcome # "results"
    /\ (/\ res.proc \in ChatProcs
        /\ res.call.useIndexedSearch
        /\ res.call.indexed
        /\ res.call.searchOutcome = "results") =>
          /\ ~res.call.assembled
          /\ Len(res.call.searchResults) > 0
          /\ res.out = Ok(formatIndexedContext(res.call.searchResults))

\* C8 witness: a call is answered with the context of one search result
C8_Witness ==
    /\ res.proc \in ChatProcs
    /\ res.call.useIndexedSearch
    /\ res.call.indexed
    /\ res.call.searchOutcome = "results"
    /\ res.out.status = "ok"
    /\ Len(res.out.value) = 1
    /\ res.out.value[1].section = "Relevant Code (from indexed search)"

\* C9: with useIndexedSearch = true the context is the assembler's output
\* when the root is not indexed, and then no embedding request and no
\* search is made, and when the search returns no result
C9_Fallback ==
    /\ \A h \in ChatProcs :
          (pc[h] # "idle" /\ ch[h].useIndexedSearch /\ ~ch[h].indexed) =>
             /\ pc[h] = "chAssemble"
             /\ ch[h].embedRequests = 0
             /\ ch[h].searchRequests = 0
    /\ (res.proc \in ChatProcs /\ res.call.useIndexedSearch /\ ~res.call.indexed) =>
          /\ res.call.embedRequests = 0
          /\ res.call.searchRequests = 0
          /\ AssemblerAnswer
    /\ (/\ res.proc \in ChatProcs
        /\ res.call.useIndexedSearch
        /\ res.call.searchOutcome = "empty") => AssemblerAnswer

\* C9 witness: the search of an indexed root has found nothing and the
\* call is answered with the three sections of the assembler
C9_Witness ==
    /\ res.proc \in ChatProcs
    /\ res.call.useIndexedSearch
    /\ res.call.indexed
    /\ res.call.searchOutcome = "empty"
    /\ res.call.searchRequests = 1
    /\ res.call.assembled
    /\ res.out.status = "ok"
    /\ Len(res.out.value) >= 2

\* C9 second witness: the root is not indexed and the call is answered
C9_WitnessNotIndexed ==
    /\ res.proc \in ChatProcs
    /\ res.call.useIndexedSearch
    /\ ~res.call.indexed
    /\ res.call.codebasePath \in Roots
    /\ res.call.assembled

-----------------------------------------------------------------------------
(* Properties of the batches *)

\* the batch (from 0) of the file at index k (from 1) of codeFiles
BatchIndex(k) == (k - 1) \div 10

\* C10: a file of a later batch is not touched before every file of the
\* earlier batches has returned, and at most 10 files are in progress
C10_Batches ==
    \A c \in IndexProcs :
       pc[c] = "ixBatch" =>
          LET run == ix[c]
              n   == Len(run.codeFiles)
          IN  /\ \A f, g \in 1..n :
                    (BatchIndex(f) < BatchIndex(g) /\ run.tasks[g].pc # "new") =>
                       run.tasks[f].pc = "done"
              /\ Cardinality({ k \in 1..n : run.tasks[k].pc \notin {"new", "done"} }) <= 10

\* C10 witness: a file of the second batch is being embedded after a file
\* of the first batch has been upserted
C10_Witness ==
    \E c \in IndexProcs :
       /\ pc[c] = "ixBatch"
       /\ Len(ix[c].codeFiles) > 10
       /\ ix[c].tasks[11].pc = "embed"
       /\ ix[c].tasks[1].ret = 1

\* C10 second witness: ten files are in progress at once
C10_WitnessTen ==
    \E c \in IndexProcs :
       /\ pc[c] = "ixBatch"
       /\ Cardinality({ k \in 1..Len(ix[c].codeFiles) :
                          ix[c].tasks[k].pc \notin {"new", "done"} }) = 10

-----------------------------------------------------------------------------
(* Properties of indexFile *)

\* the indexFile calls that await an embedding or an upsert with chunks of
\* their file left after the current one
ChunksLeft ==
    { <<c, k>> \in IndexProcs \X (1..NumBatchFiles) :
         /\ pc[c] = "ixBatch"
         /\ k \in 1..Len(ix[c].codeFiles)
         /\ ix[c].tasks[k].pc \in {"embed", "upsert"}
         /\ ix[c].tasks[k].i + 1 < Len(ix[c].tasks[k].chunks) }

\* C11: when the embedding or the upsert of a chunk fails, the file goes
\* on: an indexFile call with chunks left after the current one does not
\* return, whatever the outcome of the current chunk
C11_FileContinues ==
    [][ \A t \in ChunksLeft : ix'[t[1]].tasks[t[2]].pc # "done" ]_vars

-----------------------------------------------------------------------------
(* Properties of splitIntoChunks *)

\* a call of the chunker with 0 <= overlapSize < windowSize has returned
ValidSplitDone ==
    /\ fn.op = "splitIntoChunks"
    /\ fn.out # NoOut
    /\ fn.overlapSize < fn.maxChunkSize

RECURSIVE Unoverlap(_, _)
\* the chunks put end to end, every chunk but the first without its first
\* overlapSize characters
Unoverlap(chunks, overlapSize) ==
    IF Len(chunks) = 0 THEN << >>
    ELSE IF Len(chunks) = 1 THEN chunks[1]
    ELSE Unoverlap(SubSeq(chunks, 1, Len(chunks) - 1), overlapSize)
         \o SubSeq(chunks[Len(chunks)], overlapSize + 1, Len(chunks[Len(chunks)]))

\* C12: for 0 <= overlapSize < windowSize the chunker returns; every chunk
\* but the last has windowSize characters; the last overlapSize characters
\* of a chunk are the first of the next one and sit at the same place of the
\* text; the last chunk ends where the text ends; the chunks without their
\* overlaps make up the text
C12_Chunking ==
    ValidSplitDone =>
       /\ fn.out.status = "ok"
       /\ LET chunks == fn.out.value
               n      == Len(chunks)
               w      == fn.maxChunkSize
               o      == fn.overlapSize
               \* the place (from 0) of chunk i (from 1) in the text
               at(i)  == (i - 1) * (w - o)
           IN  /\ \A i \in 1..(n - 1) : Len(chunks[i]) = w
               /\ \A i \in 1..n :
                     chunks[i] = SubSeq(fn.text, at(i) + 1, at(i) + Len(chunks[i]))
               /\ \A i \in 1..(n - 1) :
                     /\ Len(chunks[i + 1]) > o
                     /\ SubSeq(chunks[i], w - o + 1, w) = SubSeq(chunks[i + 1], 1, o)
               /\ n > 0 => at(n) + Len(chunks[n]) = Len(fn.text)
               /\ n = 0 <=> Len(fn.text) = 0
               /\ Unoverlap(chunks, o) = fn.text

\* C12 witness: a text of five letters is cut with window 3 and overlap 1
\* into two chunks that share a letter
C12_Witness ==
    /\ ValidSplitDone
    /\ fn.text = <<"a", "b", "b", "a", "b">>
    /\ fn.maxChunkSize = 3
    /\ fn.overlapSize = 1
    /\ fn.out = Ok(<< <<"a", "b", "b">>, <<"b", "a", "b">> >>)

\* ceil(a / b) for a >= 0 and b > 0
CeilDiv(a, b) == (a + b - 1) \div b

\* C13: for 0 <= overlapSize < windowSize the number of chunks is
\* ceil((len - overlapSize) / (windowSize - overlapSize)) for a text longer
\* than the window, 1 for a shorter text that is not empty, 0 for the empty
\* text
C13_ChunkCount ==
    ValidSplitDone =>
       /\ fn.out.status = "ok"
       /\ LET len == Len(fn.text)
               w   == fn.maxChunkSize
               o   == fn.overlapSize
           IN  Len(fn.out.value) =
                  IF len > w THEN CeilDiv(len - o, w - o)
                  ELSE IF len > 0 THEN 1
                  ELSE 0

\* C13 witness: five letters, window 2, overlap 1: four chunks
C13_Witness ==
    /\ ValidSplitDone
    /\ Len(fn.text) = 5
    /\ fn.maxChunkSize = 2
    /\ fn.overlapSize = 1
    /\ fn.out.status = "ok"
    /\ Len(fn.out.value) = 4

\* C14: a call with overlapSize >= windowSize is rejected as a
\* configuration error with no chunk produced, and no call runs forever
C14_DegenerateRejected ==
    (fn.op = "splitIntoChunks" /\ fn.out # NoOut) =>
       /\ fn.out.status # "diverges"
       /\ fn.overlapSize >= fn.maxChunkSize => fn.out.status = "error"

-----------------------------------------------------------------------------
(* Properties of generateChunkId *)

\* C15: the string generateChunkId hashes tells its inputs apart: no other
\* input (path, start line, chunk) gives the string this input gives
C15_UnambiguousEncoding ==
    (fn.op = "generateChunkId" /\ fn.out # NoOut) =>
       \A t \in IdInputs :
          t # fn.args =>
             Ok(chunkIdInput(t.filePath, t.startLine, t.content)) # fn.out

-----------------------------------------------------------------------------
(* Properties of the points of a run *)

\* the chunks of the file at a path
ChunksOfFile(path) ==
    splitIntoChunks(NodeAt(fs, path).content, 1000, 200).chunks

\* the points of the store for a file of a root
PointsOfFile(root, path) ==
    { q \in points : /\ q.payload.codebasePath = root
                     /\ q.payload.filePath = pathString(path.rel) }

\* the runs whose indexFile calls have all returned, each with the count of
\* all the chunks of its file: every embedding and upsert has succeeded
FullRuns ==
    { c \in IndexProcs :
         /\ pc[c] = "ixBatch"
         /\ \A k \in 1..Len(ix[c].codeFiles) :
               /\ ix[c].tasks[k].pc = "done"
               /\ ix[c].tasks[k].ret = Len(ChunksOfFile(ix[c].codeFiles[k])) }

\* C16: when every call of a run has succeeded, the first run of a root or
\* a later one, the store holds for each file of the root one point per
\* chunk, under the identifier of the chunk's path, start line and text:
\* a second run adds no point and changes no identifier
C16_IdempotentIndexing ==
    \A c \in FullRuns :
       \A k \in 1..Len(ix[c].codeFiles) :
          LET path   == ix[c].codeFiles[k]
              chunks == ChunksOfFile(path)
              mine   == PointsOfFile(ix[c].root, path)
          IN  /\ Cardinality(mine) = Len(chunks)
              /\ { q.id : q \in mine } =
                    { pathString(path.rel) \o <<":">> \o Digits(16 * (i - 1) + 1)
                         \o <<":">> \o chunks[i] : i \in 1..Len(chunks) }

\* C16 witness: every call of a run of a root that is already indexed has
\* succeeded, and the store holds four points for the root
C16_Witness ==
    /\ FullRuns # {}
    /\ \A c \in FullRuns : ix[c].root \in indexedCodebases
    /\ Cardinality({ q \in points : q.payload.codebasePath = "A" }) = 4

\* C17: when every chunk of a file has been embedded and upserted, the
\* store holds as many points for the file's path as the file has chunks,
\* with identifiers that differ: 3 for the file of 2500 characters
C17_DistinctIds ==
    \A c \in IndexProcs :
       pc[c] = "ixBatch" =>
          \A k \in 1..Len(ix[c].codeFiles) :
             LET path   == ix[c].codeFiles[k]
                 chunks == ChunksOfFile(path)
                 mine   == PointsOfFile(ix[c].root, path)
             IN  (ix[c].tasks[k].pc = "done" /\ ix[c].tasks[k].ret = Len(chunks)) =>
                    /\ Cardinality(mine) = Len(chunks)
                    /\ Cardinality({ q.id : q \in mine }) = Len(chunks)
                    /\ Len(NodeAt(fs, path).content) = 2500 => Cardinality(mine) = 3

\* C17 witness: the file of 2500 characters has been indexed, 3 chunks of
\* which the first two have the same text, and holds 3 points
C17_Witness ==
    \E c \in IndexProcs :
       /\ pc[c] = "ixBatch"
       /\ \E k \in 1..Len(ix[c].codeFiles) :
             /\ Len(NodeAt(fs, ix[c].codeFiles[k]).content) = 2500
             /\ ix[c].tasks[k].pc = "done"
             /\ ix[c].tasks[k].ret = 3
             /\ ChunksOfFile(ix[c].codeFiles[k])[1] = ChunksOfFile(ix[c].codeFiles[k])[2]
             /\ Cardinality(PointsOfFile(ix[c].root, ix[c].codeFiles[k])) = 3

-----------------------------------------------------------------------------
(* Properties of the failures *)

\* C18: a run made without an embedding key and without an embedding
\* client ends with an error and does not register its root
C18_MissingKeyFails ==
    [][ \A c \in IndexProcs :
           (/\ pc[c] # "idle"
            /\ pc'[c] = "idle"
            /\ ~config.openaiApiKey
            /\ ~openaiClient) =>
              /\ res'.proc = c
              /\ res'.out.status = "error"
              /\ indexedCodebases' \subseteq indexedCodebases ]_vars

\* C19: when the embedding request of the query or the search of the store
\* fails, searchCodebase ends with that error: the caller gets no list,
\* empty or partial
C19_SearchFailurePropagates ==
    [][ \A s \in SearchProcs :
           (pc[s] \in {"srEmbed", "srSearch"} /\ (SearchEmbedFails(s) \/ SearchFails(s))) =>
              /\ res'.proc = s
              /\ res'.out.status = "error"
              /\ res'.out.message \in {"Failed to create embeddings", "search failed"}
              /\ pc'[s] = "idle" ]_vars

\* C19 witness: a search has failed in the store while the store held a
\* point that the query admits
C19_Witness ==
    /\ res.proc \in SearchProcs
    /\ res.out = Err("search failed")
    /\ Admitted(points, Embed(res.call.query), searchFilter(res.call.codebasePath),
                score_threshold) # {}

\* C20: indexCodebase without a root starts no run: it fails and leaves
\* the busy flag, the indexed set and the store as they are; when no run
\* is in progress the error is 'Codebase path is required'
C20_EmptyRootRejected ==
    [][ \A c \in IndexProcs :
           (pc[c] = "idle" /\ IndexCall(c, NoRoot)) =>
              /\ res'.proc = c
              /\ res'.out.status = "error"
              /\ ~isIndexing => res'.out = Err("Codebase path is required")
              /\ pc'[c] = "idle"
              /\ ix'[c] = NoRun
              /\ UNCHANGED <<isIndexing, indexedCodebases, points, collectionExists>> ]_vars

\* C20 witness: a call without a root is rejected for its missing path
\* while a root is indexed and the store holds points
C20_Witness ==
    /\ res.proc \in IndexProcs
    /\ res.call = NoRoot
    /\ res.out = Err("Codebase path is required")
    /\ ~isIndexing
    /\ indexedCodebases # {}
    /\ points # {}

-----------------------------------------------------------------------------
(* Properties of the context assembler and of the walker *)

\* the root of a call can be listed
RootReadable(root) ==
    /\ root \in DOMAIN fs
    /\ fs[root].kind = "dir"
    /\ fs[root].listOk

\* C21: getCodebaseContext returns '' for an absent root and for a root
\* that cannot be listed
C21_EmptyForUnreadableRoot ==
    (fn.op = "getCodebaseContext" /\ fn.out # NoOut) =>
       ((fn.codebasePath = NoRoot \/ ~RootReadable(fn.codebasePath)) =>
           fn.out = Ok(<< >>))

RECURSIVE ReachableFiles(_, _)
\* the regular files below a directory that can be reached through entries
\* that can be stat'ed and directories that can be listed, hidden entries
\* and node_modules left out
ReachableFiles(node, dirPath) ==
    IF node.kind # "dir" \/ ~node.listOk THEN {}
    ELSE UNION { LET file == node.entries[k] IN
                 IF \/ startsWithDot(file.name)
                    \/ file.name = NODE_MODULES
                    \/ ~file.statOk
                 THEN {}
                 ELSE IF file.kind = "dir"
                 THEN ReachableFiles(file, join(dirPath, file.name))
                 ELSE { join(dirPath, file.name) } : k \in 1..Len(node.entries) }

\* C22: the walk returns every regular file it can reach: a stat or a
\* listing that fails costs that entry or that subtree only
C22_WalkSkipsOnlyFailures ==
    (fn.op = "getAllFiles" /\ fn.out # NoOut) =>
       /\ fn.out.status = "ok"
       /\ ReachableFiles(fs[fn.codebasePath], [root |-> fn.codebasePath, rel |-> << >>])
             \subseteq Range(fn.out.value)

-----------------------------------------------------------------------------
(* Properties of DELETE /index/:codebasePath *)

\* C23: a clear that answers success has had its delete by filter applied
\* to the store, which then held no point of the root, and leaves the root
\* out of the indexed set; a clear whose delete or whose initializeQdrant
\* fails answers an error and leaves the indexed set as it was
C23_ClearIndex ==
    [][ \A k \in ClearProcs :
           /\ (pc[k] = "clDelete" /\ pc'[k] = "clDeleted") =>
                 /\ \A p \in points' : ~Matches(p, PathFilter(cl[k].decodedPath))
                 /\ cl[k].decodedPath \in everCleared'
           /\ (res'.proc = k /\ res'.out.status = "ok") =>
                 /\ pc[k] = "clDeleted"
                 /\ res'.call = cl[k].decodedPath
                 /\ res'.call \in everCleared
                 /\ res'.call \notin indexedCodebases'
           /\ (pc[k] \in {"clDelete", "qFailed"} /\ pc'[k] = "idle") =>
                 /\ res'.proc = k
                 /\ res'.out.status = "error"
                 /\ indexedCodebases' = indexedCodebases ]_vars

\* C23 witness: a clear has answered success while the other root is
\* still in the indexed set and still has its points
C23_Witness ==
    /\ res.proc \in ClearProcs
    /\ res.out.status = "ok"
    /\ indexedCodebases # {}
    /\ points # {}

-----------------------------------------------------------------------------
(* Properties of the chunk loop of indexFile *)

\* the calls of indexFile of the running indexCodebase calls
Tasks == { <<c, k>> \in IndexProcs \X (1..NumBatchFiles) :
              pc[c] = "ixBatch" /\ k \in 1..Len(ix[c].tasks) }

\* the point of chunk j of the file of task k of run c
TaskPoint(c, k, j) ==
    pointOf(ix[c].codeFiles[k], ix[c].root, ix[c].tasks[k].chunks[j + 1], j)

\* C24: a file's chunks are handled in order, one at a time.  The one
\* outstanding call of an indexFile is the embedding or the upsert of chunk
\* i, every chunk before i has been upserted, the upsert of chunk i is sent
\* when its embedding arrives, and the embedding of chunk i + 1 is
\* requested in the step in which the upsert of chunk i completes
C24_ChunksInOrder ==
    [][ \A c \in IndexProcs, k \in 1..NumBatchFiles :
          (<<c, k>> \in Tasks /\ <<c, k>> \in Tasks') =>
             LET old == ix[c].tasks[k]
                 new == ix'[c].tasks[k]
             IN  /\ new.pc \in {"embed", "upsert"} =>
                       /\ new.i < Len(new.chunks)
                       /\ new.indexedChunks = new.i
                       /\ \A j \in 0..(new.i - 1) : TaskPoint(c, k, j)' \in points'
                 /\ (new.pc = "upsert" /\ old.pc # "upsert") =>
                       (old.pc = "embed" /\ new.i = old.i)
                 /\ (new.pc = "embed" /\ (old.pc # "embed" \/ old.i # new.i)) =>
                       \/ old.pc = "read" /\ new.i = 0
                       \/ /\ old.pc = "upsert"
                          /\ new.i = old.i + 1
                          /\ TaskPoint(c, k, old.i) \in points' ]_vars

\* C24 witness: the embedding of the third chunk of a file is outstanding
\* and its first two chunks are in the store
C24_Witness ==
    \E <<c, k>> \in Tasks :
       /\ ix[c].tasks[k].pc = "embed"
       /\ ix[c].tasks[k].i = 2
       /\ TaskPoint(c, k, 0) \in points
       /\ TaskPoint(c, k, 1) \in points

-----------------------------------------------------------------------------
(* Properties of the chunk count of a run *)

\* C25: the totalChunks of a run that answers success is at most the
\* number of upserts that succeeded in the run, and it is that number when
\* no embedding request and no upsert of the run has failed
C25_ChunkCount ==
    [][ \A c \in IndexProcs :
           (pc[c] = "ixBatch" /\ res'.proc = c /\ res'.out.status = "ok") =>
              /\ res'.out.value.totalChunks <= ix[c].upserts
              /\ ix[c].failures = 0 => res'.out.value.totalChunks = ix[c].upserts ]_vars

\* C25 witness: a run has answered success with one chunk, the chunk of
\* m.js, while the store also holds the two chunks of big.js that were
\* upserted before its third chunk failed
C25_Witness ==
    /\ res.proc \in IndexProcs
    /\ res.out.status = "ok"
    /\ res.out.value.totalChunks = 1
    /\ Cardinality(points) = 3

-----------------------------------------------------------------------------
(* Termination of a run *)

\* C26: when every call a run awaits returns, with a result or with an
\* error, every indexCodebase call that has started ends and the busy flag
\* becomes false again
C26_RunsEnd ==
    /\ \A c \in IndexProcs : (pc[c] # "idle") ~> (pc[c] = "idle")
    /\ isIndexing ~> ~isIndexing

\* C26 witness: a run has ended with success, the flag is off, and every
\* file of the run has failed
C26_Witness ==
    /\ res.proc \in IndexProcs
    /\ res.out.status = "ok"
    /\ res.out.value.processedFiles = 2
    /\ res.out.value.totalChunks = 0
    /\ ~isIndexing

-----------------------------------------------------------------------------
(* The busy flag and the running call *)

\* C27: isIndexing is true exactly while an accepted indexCodebase call
\* has started and not ended, and an indexCodebase call that is rejected,
\* for a run in progress or for a missing root, leaves the flag as it was
C27_FlagIsRun ==
    [][ /\ isIndexing' <=> (ActiveRuns' # {})
        /\ \A c \in IndexProcs :
              (pc[c] = "idle" /\ pc'[c] = "idle" /\ res'.proc = c) =>
                 /\ res'.out \in {AlreadyIndexing, Err("Codebase path is required")}
                 /\ isIndexing' = isIndexing
                 /\ ActiveRuns' = ActiveRuns ]_vars

\* C27 witness: a call without a root has been rejected during a run that
\* waits for an upsert, and the flag is still set
C27_Witness ==
    /\ res.proc \in IndexProcs
    /\ res.out.status = "error"
    /\ res.call = NoRoot
    /\ isIndexing
    /\ \E c \in ActiveRuns :
          /\ pc[c] = "ixBatch"
          /\ \E k \in 1..Len(ix[c].codeFiles) : ix[c].tasks[k].pc = "upsert"

-----------------------------------------------------------------------------
(* Clearing a root while it is being indexed *)

\* the store holds no point of root r and r is not in the indexed set
CleanOf(r) ==
    /\ r \notin indexedCodebases
    /\ \A q \in points : q.payload.codebasePath # r

\* a clearIndex of root r has just answered success
JustCleared(r) ==
    /\ res.proc \in ClearProcs
    /\ res.out.status = "ok"
    /\ res.call = r

\* C28: when a clearIndex of a root answers success the store holds no
\* point of the root and the root is not in the indexed set, and this is
\* still so after the next step unless that step starts an indexCodebase
\* call for the root, a run of the root being in progress or not
C28_ClearedStaysClean ==
    [][ \A r \in Roots :
           /\ JustCleared(r)' => CleanOf(r)'
           /\ (JustCleared(r) /\ CleanOf(r) /\ ~(\E c \in IndexProcs : IndexCall(c, r))) =>
                 CleanOf(r)' ]_vars

-----------------------------------------------------------------------------
(* Calls of the store and the collection *)

\* an upsert, a search or a delete by filter has been sent to the store
\* and has not been answered
StoreCallOutstanding ==
    \/ \E <<c, k>> \in Tasks : ix[c].tasks[k].pc = "upsert"
    \/ \E s \in SearchProcs \cup ChatProcs : pc[s] = "srSearch"
    \/ \E k \in ClearProcs : pc[k] = "clDelete"

\* C29: an upsert, a search or a delete by filter is sent to the store
\* only after an initializeQdrant of this process has listed the
\* collections and found or created the collection.  The process starts
\* without the collection and nothing drops it, so the collection has been
\* ensured exactly when it exists
C29_StoreCallsAfterEnsure ==
    StoreCallOutstanding => collectionExists

-----------------------------------------------------------------------------
(* Retrieval failures in sendMessage *)

\* C30: a sendMessage call with useIndexedSearch = true never ends with an
\* error of the embedding request or of the store: when its search of an
\* indexed root fails, getIndexedCodebaseContext returns '' and the context
\* is the output of getCodebaseContext
C30_RetrievalFailureSwallowed ==
    /\ \A h \in ChatProcs :
          (ch[h].searchOutcome = "error") => pc[h] = "chAssemble"
    /\ (res.proc \in ChatProcs /\ res.call.useIndexedSearch) =>
          /\ res.out.status = "ok"
          /\ res.call.searchOutcome = "error" =>
                /\ res.call.indexed
                /\ res.call.searchResults = << >>
                /\ AssemblerAnswer

\* C30 witness: the search of a call has failed in the store, which holds
\* a point of the root that the prompt admits, and the call is answered
\* with the output of the assembler
C30_Witness ==
    /\ res.proc \in ChatProcs
    /\ res.call.useIndexedSearch
    /\ res.call.searchOutcome = "error"
    /\ res.call.searchRequests = 1
    /\ res.out.status = "ok"
    /\ Len(res.out.value) >= 1
    /\ Admitted(points, Embed(res.call.prompt), searchFilter(res.call.codebasePath),
                score_threshold) # {}

====
